---- MODULE Spec2Model ----
(***************************************************************************)
(* Device discovery and lifecycle engine of huannv-sys/vovi.                *)
(*                                                                         *)
(*   SpecVendor  : MacVendorLookup (mac_vendor.py), lookup() run by        *)
(*                 concurrent callers, one step per shared-state access.   *)
(*   SpecPassive : the passive discovery store (realtime_discovery.py),    *)
(*                 one detect_new_devices() pass at a time, one step per   *)
(*                 feed record, plus the query and promotion calls.        *)
(*   SpecLifecycle : start_discovery(), stop_discovery() and the           *)
(*                 discovery_worker threads they create.                   *)
(*   SpecSingleCaller : lookup() run by one caller.                        *)
(*   SpecNormalize : _normalize_mac() on its own.                          *)
(*   SpecScan    : the active scanner (discovery.py), scan_network() and   *)
(*                 run_discovery() with the merge into the device store.   *)
(*   SpecRace    : a query or promotion call run beside the passive pass.  *)
(*   SpecStorage : MacVendorLookup built from CACHE_FILE, with the save of *)
(*                 the cache one step per system call and a second reader. *)
(*   SpecPromote : add_to_monitored_devices() run by two callers at once.  *)
(*   SpecRestart : start_discovery() called after stop_discovery().        *)
(*                                                                         *)
(* Time is the system clock in whole seconds.  upper() and the isalnum()   *)
(* filter are computed on the characters of each MAC string.               *)
(***************************************************************************)
EXTENDS Integers, Sequences, FiniteSets, TLC

VARIABLES
    clock,               \* the system clock: time.time() / datetime.now()
    ticks,               \* number of clock advances so far (bounded)
    cache,               \* MacVendorLookup.cache : OUI -> <<vendor, timestamp>>
    file,                \* contents of CACHE_FILE (the persisted map)
    last_request_time,   \* MacVendorLookup.last_request_time
    thr,                 \* per caller of lookup(): position and locals
    rounds,              \* start times of the last two external lookup rounds
    nlookups,            \* number of lookup() calls started (bounded)
    discovered_devices,  \* realtime_discovery.discovered_devices, by key
    dict_order,          \* the keys of discovered_devices in insertion order
    pass,                \* position and locals of detect_new_devices()
    evicted,             \* keys deleted by the most recent eviction loop
    devices,             \* config.get_devices(): the monitored-device store
    last_call,           \* the last list()/promote() call and its result
    running,             \* realtime_discovery.running
    discovery_thread,    \* realtime_discovery.discovery_thread (0 for None)
    workers,             \* per Thread object of discovery_worker: its position
    starters,            \* per caller of start_discovery(): its position
    nstarts,             \* number of start_discovery() calls made (bounded)
    normalizing,         \* _normalize_mac(): its argument and successive results
    scan,                \* discovery.py: position and locals of one scan call
    caller,              \* a list()/promote() call run beside the passive pass
    file_bytes,          \* how much of the JSON text of `file` CACHE_FILE holds
    observed,            \* what another reader of CACHE_FILE last saw
    logged,              \* the storage errors passed to logger.error so far
    promoters            \* per concurrent caller of add_to_monitored_devices

vars == <<clock, ticks, cache, file, last_request_time, thr, rounds, nlookups,
          discovered_devices, dict_order, pass, evicted, devices, last_call,
          running, discovery_thread, workers, starters, nstarts, normalizing,
          scan, caller, file_bytes, observed, logged,
          promoters>>

vendorVars == <<cache, file, last_request_time, thr, rounds, nlookups>>
passiveVars == <<discovered_devices, dict_order, pass, evicted, devices, last_call>>
lifeVars == <<running, discovery_thread, workers, starters, nstarts>>
normVars == <<normalizing>>
scanVars == <<scan>>
callerVars == <<caller>>
storageVars == <<file_bytes, observed, logged>>
promoteVars == <<promoters>>
otherVars == <<normVars, scanVars, callerVars, storageVars, promoteVars>>

(***************************************************************************)
(* Bounds of the model.                                                    *)
(***************************************************************************)
MaxVendorTicks == 2
MaxPassiveTicks == 1
MaxLookups == 2
MaxFeed == 1
MaxStarts == 3
MaxMacLen == 7
MaxApplications == 2
MaxRanges == 2
StartTime == 3000000

(***************************************************************************)
(* Program constants.                                                      *)
(***************************************************************************)
CACHE_EXPIRY == 2592000
request_interval == 1
NEW_DEVICE_THRESHOLD == 300
SCAN_INTERVAL == 20
INACTIVE_SECONDS == 86400
DefaultMaxWorkers == 20

None == "None"

(***************************************************************************)
(* Characters and MAC strings.  The state holds strings; the string        *)
(* operations of the code are computed on their characters.                *)
(***************************************************************************)
MacEmpty == ""
MacShort == "12"
MacLower == "aa:bb:cc:00:11:22"
MacUpper == "AA:BB:CC:00:11:22"
MacPlain == "AABBCC001122"

\* the strings the MAC operations range over in this model
MacStrings ==
    {MacEmpty, MacShort, MacLower, MacUpper, MacPlain, "AABBCC", ":11:22", "001122"}

\* the characters of a string
Chars(s) ==
    CASE s = "" -> <<>>
      [] s = "12" -> <<"1","2">>
      [] s = "aa:bb:cc:00:11:22" ->
            <<"a","a",":","b","b",":","c","c",":","0","0",":","1","1",":","2","2">>
      [] s = "AA:BB:CC:00:11:22" ->
            <<"A","A",":","B","B",":","C","C",":","0","0",":","1","1",":","2","2">>
      [] s = "AABBCC001122" -> <<"A","A","B","B","C","C","0","0","1","1","2","2">>
      [] s = "AABBCC" -> <<"A","A","B","B","C","C">>
      [] s = ":11:22" -> <<":","1","1",":","2","2">>
      [] s = "001122" -> <<"0","0","1","1","2","2">>

\* the string with the given characters
Str(cs) == CHOOSE s \in MacStrings : Chars(s) = cs

LowerHex == <<"a", "b", "c", "d", "e", "f">>
UpperHex == <<"A", "B", "C", "D", "E", "F">>
Separators == {":", "-", "."}

\* str.upper() on one character
UpperChar(c) ==
    IF \E i \in 1..Len(LowerHex) : LowerHex[i] = c
    THEN UpperHex[CHOOSE i \in 1..Len(LowerHex) : LowerHex[i] = c]
    ELSE c

UpperChars(cs) == [i \in 1..Len(cs) |-> UpperChar(cs[i])]

\* str.upper(), tabulated once over the strings of the model
UpperOf == [s \in MacStrings |-> Str(UpperChars(Chars(s)))]
Upper(s) == UpperOf[s]

\* str.isalnum() on one character of the model's alphabet
IsAlnum(c) == c \notin Separators

\* ''.join(c for c in mac if c.isalnum())
RECURSIVE KeepAlnum(_)
KeepAlnum(cs) ==
    IF cs = <<>> THEN <<>>
    ELSE IF IsAlnum(Head(cs)) THEN <<Head(cs)>> \o KeepAlnum(Tail(cs))
    ELSE KeepAlnum(Tail(cs))

NormalizeCharsTruncatingFirst(cs) ==
    LET m == KeepAlnum(UpperChars(SubSeq(cs, 1, IF Len(cs) < 6 THEN Len(cs) ELSE 6)))
    IN  IF Len(m) < 6 THEN <<>> ELSE m

\* MacVendorLookup._normalize_mac: "" when fewer than 6 characters remain
NormalizeChars(cs) ==
    LET m == KeepAlnum(UpperChars(cs))
    IN  IF Len(m) < 6 THEN <<>> ELSE SubSeq(m, 1, 6)

NormalizedOf == [s \in MacStrings |-> Str(NormalizeChars(Chars(s)))]
NormalizeMac(mac) == NormalizedOf[mac]

\* the MAC arguments callers pass to lookup()
LookupMacs == {MacEmpty, MacShort, MacLower, MacPlain}

\* the concurrent callers of lookup()
Threads == {"t1", "t2"}

(***************************************************************************)
(* The clock.                                                              *)
(***************************************************************************)
VendorDelays == {1, CACHE_EXPIRY - 1}
PassiveDelays ==
    {1, NEW_DEVICE_THRESHOLD, NEW_DEVICE_THRESHOLD + 1, INACTIVE_SECONDS, 25 * 3600}

Tick(D, max) ==
    /\ ticks < max
    /\ \E d \in D : clock' = clock + d
    /\ ticks' = ticks + 1

(***************************************************************************)
(* Vendor lookup providers (API_URLS) and _lookup_online.                  *)
(***************************************************************************)
Vendors == {"Acme"}

\* status -1 stands for requests.get (or response.json) raising
\* api.macvendors.com: bare text
TextResponses ==
    [status : {200}, text : Vendors \cup {""}]
        \cup [status : {500, -1}, text : {""}]

\* api.maclookup.app: JSON envelope {success, data: {vendor}}
JsonResponses ==
    [status : {200}, success : {TRUE}, data : Vendors \cup {"novendor"}]
        \cup [status : {200}, success : {FALSE}, data : {""}]
        \cup [status : {500, -1}, success : {FALSE}, data : {""}]

\* what the loop body yields for one provider: a vendor, or None to go on
TextAnswer(r) == IF r.status = 200 THEN r.text ELSE None

JsonAnswer(r) ==
    IF r.status = 200 /\ r.success /\ r.data # ""
    THEN (IF r.data = "novendor" THEN "Unknown" ELSE r.data)
    ELSE None

\* every provider failed or declined: the loop fell through to line 120
Exhausted(r1, r2) == TextAnswer(r1) = None /\ JsonAnswer(r2) = None

LookupOnlineLastWins(r1, r2) ==
    IF JsonAnswer(r2) # None THEN JsonAnswer(r2)
    ELSE IF TextAnswer(r1) # None THEN TextAnswer(r1)
    ELSE "Unknown"

\* MacVendorLookup._lookup_online
LookupOnline(r1, r2) ==
    IF TextAnswer(r1) # None THEN TextAnswer(r1)
    ELSE IF JsonAnswer(r2) # None THEN JsonAnswer(r2)
    ELSE "Unknown"

\* the responses the loop received, in order: the return at the first
\* provider's answer leaves the second provider unqueried
Requested(r1, r2) == IF TextAnswer(r1) # None THEN <<r1>> ELSE <<r1, r2>>

\* Python truthiness of the vendor string (line 90)
Truthy(v) == v # "" /\ v # None

CacheFreshInclusive(current_time, timestamp) ==
    current_time - timestamp <= CACHE_EXPIRY

\* line 80: the cached entry is still within its TTL
CacheFresh(current_time, timestamp) == current_time - timestamp < CACHE_EXPIRY

TooSoonNever(current_time, last) == FALSE

\* line 84: the caller arrived sooner than the minimum spacing
TooSoon(current_time, last) == current_time - last < request_interval

(***************************************************************************)
(* lookup(), one step per access to the shared state.                      *)
(***************************************************************************)
IdleThread ==
    [pc |-> "idle", normalized_mac |-> "", current_time |-> 0,
     vendor |-> None, wake |-> 0, ret |-> None,
     seen |-> <<>>, called |-> FALSE, exhausted |-> FALSE, answers |-> <<>>]

\* lines 66-76: argument checks, normalisation, current_time = time.time()
LookupBegin(t) ==
    /\ thr[t].pc = "idle"
    /\ nlookups < MaxLookups
    /\ \E mac \in LookupMacs :
         LET n == NormalizeMac(mac)
         IN  thr' = [thr EXCEPT ![t] =
                 IF mac = "" \/ n = ""
                 THEN [IdleThread EXCEPT !.pc = "done"]
                 ELSE [IdleThread EXCEPT !.pc = "cache",
                                         !.normalized_mac = n,
                                         !.current_time = clock]]
    /\ nlookups' = nlookups + 1
    /\ UNCHANGED <<otherVars, clock, ticks, cache, file, last_request_time, rounds, passiveVars,
                   lifeVars>>

\* lines 77-81: the cache check
LookupCheckCache(t) ==
    /\ thr[t].pc = "cache"
    /\ LET n == thr[t].normalized_mac
       IN  IF n \in DOMAIN cache
           THEN IF CacheFresh(thr[t].current_time, cache[n][2])
                THEN thr' = [thr EXCEPT ![t].pc = "done", ![t].seen = cache[n],
                                        ![t].ret = cache[n][1]]
                ELSE thr' = [thr EXCEPT ![t].pc = "rate", ![t].seen = cache[n]]
           ELSE thr' = [thr EXCEPT ![t].pc = "rate"]
    /\ UNCHANGED <<otherVars, clock, ticks, cache, file, last_request_time, rounds, nlookups, passiveVars,
                   lifeVars>>

\* lines 84-85: the interval check; time.sleep() starts now
LookupRateCheck(t) ==
    /\ thr[t].pc = "rate"
    /\ IF TooSoon(thr[t].current_time, last_request_time)
       THEN thr' = [thr EXCEPT ![t].pc = "sleep",
                      ![t].wake = clock + (request_interval
                                   - (thr[t].current_time - last_request_time))]
       ELSE thr' = [thr EXCEPT ![t].pc = "online"]
    /\ UNCHANGED <<otherVars, clock, ticks, cache, file, last_request_time, rounds, nlookups, passiveVars,
                   lifeVars>>

\* time.sleep() returns once the requested time has elapsed
LookupWake(t) ==
    /\ thr[t].pc = "sleep"
    /\ clock >= thr[t].wake
    /\ thr' = [thr EXCEPT ![t].pc = "online", ![t].wake = 0]
    /\ UNCHANGED <<otherVars, clock, ticks, cache, file, last_request_time, rounds, nlookups, passiveVars,
                   lifeVars>>

\* the two most recent entries of a sequence
LastTwo(s) == IF Len(s) <= 2 THEN s ELSE SubSeq(s, Len(s) - 1, Len(s))

\* line 87: one external lookup round, started at the current clock
LookupCallOnline(t) ==
    /\ thr[t].pc = "online"
    /\ \E r1 \in TextResponses, r2 \in JsonResponses :
         thr' = [thr EXCEPT ![t].pc = "stamp",
                            ![t].vendor = LookupOnline(r1, r2),
                            ![t].exhausted = Exhausted(r1, r2),
                            ![t].called = TRUE,
                            ![t].answers = Requested(r1, r2)]
    /\ rounds' = LastTwo(Append(rounds, clock))
    /\ UNCHANGED <<otherVars, clock, ticks, cache, file, last_request_time, nlookups, passiveVars,
                   lifeVars>>

\* line 88: self.last_request_time = time.time(); the responses were locals
\* of _lookup_online and are gone
LookupStamp(t) ==
    /\ thr[t].pc = "stamp"
    /\ last_request_time' = clock
    /\ thr' = [thr EXCEPT ![t].pc = "store", ![t].answers = <<>>]
    /\ UNCHANGED <<otherVars, clock, ticks, cache, file, rounds, nlookups, passiveVars,
                   lifeVars>>

\* lines 90-92: if vendor: self.cache[normalized_mac] = (vendor, current_time)
LookupStore(t) ==
    /\ thr[t].pc = "store"
    /\ IF Truthy(thr[t].vendor)
       THEN /\ cache' = [k \in DOMAIN cache \cup {thr[t].normalized_mac} |->
                           IF k = thr[t].normalized_mac
                           THEN <<thr[t].vendor, thr[t].current_time>>
                           ELSE cache[k]]
            /\ thr' = [thr EXCEPT ![t].pc = "save"]
       ELSE /\ cache' = cache
            /\ thr' = [thr EXCEPT ![t].pc = "done", ![t].ret = thr[t].vendor]
    /\ UNCHANGED <<otherVars, clock, ticks, file, last_request_time, rounds, nlookups, passiveVars,
                   lifeVars>>

\* line 93 and _save_cache: json.dump(self.cache) over CACHE_FILE; line 95
LookupSave(t) ==
    /\ thr[t].pc = "save"
    /\ file' = cache
    /\ thr' = [thr EXCEPT ![t].pc = "done", ![t].ret = thr[t].vendor]
    /\ UNCHANGED <<otherVars, clock, ticks, cache, last_request_time, rounds, nlookups, passiveVars,
                   lifeVars>>

\* the caller takes the result; it may call lookup() again
LookupReturn(t) ==
    /\ thr[t].pc = "done"
    /\ thr' = [thr EXCEPT ![t] = IdleThread]
    /\ UNCHANGED <<otherVars, clock, ticks, cache, file, last_request_time, rounds, nlookups, passiveVars,
                   lifeVars>>

EmptyMap == [k \in {} |-> <<>>]

InitVendorPart ==
    /\ cache = EmptyMap
    /\ file = EmptyMap
    /\ last_request_time = 0
    /\ thr = [t \in Threads |-> IdleThread]
    /\ rounds = <<>>
    /\ nlookups = 0

\* before: the keys the inventory held when the pass began
IdlePass ==
    [pc |-> "idle", now |-> 0, n |-> 0, current_macs |-> {},
     new_devices |-> <<>>, offered |-> "", before |-> {}]

InitPassivePart ==
    /\ discovered_devices = EmptyMap
    /\ dict_order = <<>>
    /\ pass = IdlePass
    /\ evicted = {}
    /\ devices = <<>>
    /\ last_call = [op |-> "none"]

\* realtime_discovery.py lines 27-28: discovery_thread = None; running = False
UnbornWorker == [pc |-> "unborn", sleep_for |-> 0, raised |-> FALSE]
IdleStarter == [pc |-> "idle"]
WorkerIds == 1..MaxStarts
Starters == {"s1", "s2"}

InitLifePart ==
    /\ running = FALSE
    /\ discovery_thread = 0
    /\ workers = [w \in WorkerIds |-> UnbornWorker]
    /\ starters = [c \in Starters |-> IdleStarter]
    /\ nstarts = 0

\* no call of _normalize_mac() under observation
InitNormPart == normalizing = [mac |-> <<>>, results |-> <<>>]

\* no call of scan_network() or run_discovery() in progress; result holds
\* the returned value once the call has returned
IdleScan ==
    [pc |-> "idle", call |-> "", network_ranges |-> <<>>, max_workers |-> 0,
     site_id |-> "", ri |-> 0, all_ips |-> <<>>, futures |-> <<>>,
     found_devices |-> <<>>, all_devices |-> <<>>, existing_devices |-> <<>>,
     mi |-> 0, new_count |-> 0, existing_count |-> 0, result |-> <<>>,
     probed |-> {}, per_range |-> <<>>]

InitScanPart == scan = IdleScan

\* no list()/promote() call in progress beside the pass
IdleCaller ==
    [pc |-> "idle", op |-> "", mac_address |-> "", only_new |-> FALSE,
     used |-> 0, pos |-> 0, result |-> <<>>, raised |-> "", ret |-> <<>>]

InitCallerPart == caller = IdleCaller

\* CACHE_FILE holds the whole text of `file`; nobody else has read it and
\* no storage error has been logged
InitStoragePart == file_bytes = "complete" /\ observed = <<>> /\ logged = {}

\* no concurrent add_to_monitored_devices() call under observation
IdlePromoter ==
    [pc |-> "idle", mac_address |-> "", device_info |-> <<>>, ret |-> <<>>,
     added |-> FALSE]
Promoters == {"p1", "p2"}

InitPromotePart == promoters = [p \in Promoters |-> IdlePromoter]

InitOtherPart ==
    /\ InitNormPart /\ InitScanPart /\ InitCallerPart /\ InitStoragePart
    /\ InitPromotePart

InitVendor ==
    /\ clock = StartTime
    /\ ticks = 0
    /\ InitVendorPart
    /\ InitPassivePart
    /\ InitLifePart
    /\ InitOtherPart

TickVendor == Tick(VendorDelays, MaxVendorTicks) /\ UNCHANGED <<otherVars, vendorVars, passiveVars, lifeVars>>

NextVendor ==
    \/ TickVendor
    \/ \E t \in Threads : LookupBegin(t)
    \/ \E t \in Threads : LookupCheckCache(t)
    \/ \E t \in Threads : LookupRateCheck(t)
    \/ \E t \in Threads : LookupWake(t)
    \/ \E t \in Threads : LookupCallOnline(t)
    \/ \E t \in Threads : LookupStamp(t)
    \/ \E t \in Threads : LookupStore(t)
    \/ \E t \in Threads : LookupSave(t)
    \/ \E t \in Threads : LookupReturn(t)

SpecVendor == InitVendor /\ [][NextVendor]_vars

\* lookup() called by one caller only: each call returns before the next
NextSingleCaller ==
    \/ TickVendor
    \/ LookupBegin("t1")
    \/ LookupCheckCache("t1")
    \/ LookupRateCheck("t1")
    \/ LookupWake("t1")
    \/ LookupCallOnline("t1")
    \/ LookupStamp("t1")
    \/ LookupStore("t1")
    \/ LookupSave("t1")
    \/ LookupReturn("t1")

SpecSingleCaller == InitVendor /\ [][NextSingleCaller]_vars

(***************************************************************************)
(* Claims about the vendor cache.                                          *)
(***************************************************************************)

\* C1: a lookup whose providers all failed or declined returns "Unknown" and
\* its remaining steps leave the in-memory cache and the persisted file as
\* they were (no entry is written for the OUI).
C1_ExhaustedNotCached ==
    [][\A t \in Threads :
          (thr[t].exhausted /\ thr'[t] # thr[t])
              => /\ cache' = cache
                 /\ file' = file
                 /\ (thr'[t].pc = "done" => thr'[t].ret = "Unknown")]_vars

\* C2: any two external lookup rounds start at least request_interval
\* seconds apart, whatever the interleaving of the callers (rounds are
\* recorded in start order, so consecutive rounds decide every pair).
C2_RoundsSpaced ==
    Len(rounds) = 2 => rounds[2] - rounds[1] >= request_interval

\* C3: a finished lookup that found a cache entry younger than CACHE_EXPIRY
\* at its own time returned that entry's vendor and made no external call;
\* one that found an entry CACHE_EXPIRY old or older made an external call
\* before returning.
C3_TtlDecidesCall ==
    \A t \in Threads :
        (thr[t].pc = "done" /\ thr[t].seen # <<>>)
            => LET age == thr[t].current_time - thr[t].seen[2]
               IN  /\ (age < CACHE_EXPIRY
                        => thr[t].ret = thr[t].seen[1] /\ ~thr[t].called)
                   /\ (age >= CACHE_EXPIRY => thr[t].called)

\* a lookup finished after finding an entry exactly CACHE_EXPIRY old
C3_Witness ==
    \E t \in Threads :
        /\ thr[t].pc = "done"
        /\ thr[t].seen # <<>>
        /\ thr[t].current_time - thr[t].seen[2] = CACHE_EXPIRY
        /\ thr[t].called

(***************************************************************************)
(* The passive discovery store: feeds, records, detect_new_devices().      *)
(***************************************************************************)
FeedMacs == {MacEmpty, MacLower, MacUpper, MacPlain}
Addresses == {"10.0.0.1"}
Hostnames == {"", "host-a", "host-b"}
DeviceIds == {"r1"}

\* ArpEntry and DHCPLease objects of DataStore, as the collaborator hands them over
ArpEntries ==
    [mac_address : FeedMacs, address : Addresses, vendor : {""},
     device_type : {""}, device_id : DeviceIds]

DHCPLeases ==
    [mac_address : FeedMacs, address : Addresses, hostname : Hostnames,
     vendor : {""}, device_type : {""}, device_id : DeviceIds]

\* what mac_vendor_lookup.lookup() hands back to extract_device_info in the
\* runs explored here: a vendor name (None, "", the sentinel and a raised
\* exception all leave vendor at "Unknown").  The cache behind it is the
\* subject of SpecVendor and is not tracked here.
LookupResults == Vendors

\* MacVendorLookup.get_device_type on the vendor names of the model
GetDeviceType(vendor) ==
    CASE vendor \in {"Apple", "Samsung", "Xiaomi"} -> "Dien thoai"
      [] vendor \in {"Dell", "HP", "Intel"} -> "May tinh"
      [] vendor \in {"Cisco", "MikroTik", "TP-Link"} -> "Thiet bi mang"
      [] vendor \in {"Sony", "LG"} -> "Smart TV"
      [] vendor \in {"Nest", "Sonos", "Tuya"} -> "Thiet bi thong minh"
      [] OTHER -> "Khac"

\* x or "Unknown"
OrUnknown(x) == IF Truthy(x) THEN x ELSE "Unknown"

\* extract_device_info; now is its own datetime.now() (line 59)
ExtractDeviceInfo(entry, source_type, source_device_id, now, looked_up) ==
    LET mac_address == Upper(entry.mac_address)
        vendor0 == OrUnknown(entry.vendor)
        lookup == vendor0 = "Unknown" /\ mac_address # ""
        vendor == IF lookup THEN OrUnknown(looked_up) ELSE vendor0
        device_type == IF lookup /\ vendor # "Unknown"
                       THEN GetDeviceType(vendor)
                       ELSE OrUnknown(entry.device_type)
    IN  [mac_address |-> mac_address,
         ip_address |-> entry.address,
         hostname |-> IF source_type = "dhcp" THEN entry.hostname ELSE "",
         vendor |-> vendor,
         device_type |-> device_type,
         first_seen |-> now,
         last_seen |-> now,
         source |-> source_type,
         source_device_id |-> source_device_id,
         is_new |-> TRUE]

StillNewSinceLastSeen(now, device) ==
    now - device.last_seen < NEW_DEVICE_THRESHOLD

StillNewInclusive(now, device) ==
    now - device.first_seen <= NEW_DEVICE_THRESHOLD

\* lines 126-130 and 156-160: the aging rule
StillNew(now, device) == now - device.first_seen < NEW_DEVICE_THRESHOLD

UpdateFromArpResettingFirstSeen(device, entry, now) ==
    [device EXCEPT !.first_seen = now,
                   !.last_seen = now,
                   !.ip_address = entry.address,
                   !.is_new = StillNew(now, device)]

\* lines 122-130: an ARP record of a known MAC
UpdateFromArp(device, entry, now) ==
    [device EXCEPT !.last_seen = now,
                   !.ip_address = entry.address,
                   !.is_new = StillNew(now, device)]

UpdateFromDhcpOverwritingHostname(device, lease, now) ==
    [device EXCEPT !.last_seen = now,
                   !.ip_address = lease.address,
                   !.hostname = IF lease.hostname # ""
                                THEN lease.hostname ELSE device.hostname,
                   !.is_new = StillNew(now, device)]

\* lines 148-160: a DHCP lease of a known MAC
UpdateFromDhcp(device, lease, now) ==
    [device EXCEPT !.last_seen = now,
                   !.ip_address = lease.address,
                   !.hostname = IF lease.hostname # "" /\ device.hostname = ""
                                THEN lease.hostname ELSE device.hostname,
                   !.is_new = StillNew(now, device)]

StaleInclusive(device, now) == device.last_seen <= now - INACTIVE_SECONDS

StaleAfterTwoDays(device, now) == device.last_seen < now - 2 * INACTIVE_SECONDS

\* line 163 and the first conjunct of line 165: last seen before the threshold
Stale(device, now) == device.last_seen < now - INACTIVE_SECONDS

\* line 165: the record is stale and was not reported in this pass

ShouldEvict(mac, device, now, current_macs) ==
    Stale(device, now) /\ mac \notin current_macs

\* d[k] = v on a Python dict: a new key goes to the end of the order
DictSet(d, k, v) == [x \in DOMAIN d \cup {k} |-> IF x = k THEN v ELSE d[x]]
OrderSet(order, d, k) == IF k \in DOMAIN d THEN order ELSE Append(order, k)

PassBeginKeepingList ==
    /\ pass.pc = "idle"
    /\ pass' = [IdlePass EXCEPT !.pc = "arp", !.now = clock,
                                !.before = DOMAIN discovered_devices,
                                !.new_devices = pass.new_devices]
    /\ last_call' = [op |-> "none"]
    /\ UNCHANGED <<otherVars, clock, ticks, vendorVars, discovered_devices, dict_order,
                   evicted, devices, lifeVars>>

\* lines 102-104: now = datetime.now(); new_devices = []; current_macs = set()
PassBegin ==
    /\ pass.pc = "idle"
    /\ pass' = [IdlePass EXCEPT !.pc = "arp", !.now = clock,
                                !.before = DOMAIN discovered_devices]
    /\ last_call' = [op |-> "none"]
    /\ UNCHANGED <<otherVars, clock, ticks, vendorVars, discovered_devices, dict_order,
                   evicted, devices, lifeVars>>

\* the hostname the record just processed carries (none for ARP)
Offered(entry, source_type) == IF source_type = "dhcp" THEN entry.hostname ELSE ""

\* lines 107-130 (source_type "arp") and 133-160 ("dhcp"): one feed record
ProcessRecord(entry, source_type, looked_up) ==
    IF entry.mac_address = ""
    THEN /\ pass' = [pass EXCEPT !.n = pass.n + 1, !.offered = ""]
         /\ UNCHANGED <<otherVars, discovered_devices, dict_order>>
    ELSE LET mac == Upper(entry.mac_address)
         IN  IF mac \notin DOMAIN discovered_devices
             THEN LET device_info ==
                          ExtractDeviceInfo(entry, source_type, entry.device_id,
                                            clock, looked_up)
                  IN  /\ discovered_devices' =
                             DictSet(discovered_devices, mac, device_info)
                      /\ dict_order' = OrderSet(dict_order, discovered_devices, mac)
                      /\ pass' = [pass EXCEPT
                                    !.n = pass.n + 1,
                                    !.offered = Offered(entry, source_type),
                                    !.current_macs = pass.current_macs \cup {mac},
                                    !.new_devices = Append(pass.new_devices, mac)]
             ELSE /\ discovered_devices' =
                         DictSet(discovered_devices, mac,
                                 IF source_type = "arp"
                                 THEN UpdateFromArp(discovered_devices[mac],
                                                    entry, pass.now)
                                 ELSE UpdateFromDhcp(discovered_devices[mac],
                                                     entry, pass.now))
                  /\ dict_order' = dict_order
                  /\ pass' = [pass EXCEPT
                                !.n = pass.n + 1,
                                !.offered = Offered(entry, source_type),
                                !.current_macs = pass.current_macs \cup {mac}]

ProcessArp ==
    /\ pass.pc = "arp"
    /\ pass.n < MaxFeed
    /\ \E entry \in ArpEntries, looked_up \in LookupResults :
         ProcessRecord(entry, "arp", looked_up)
    /\ UNCHANGED <<otherVars, clock, ticks, vendorVars, evicted, devices, last_call, lifeVars>>

\* the ARP loop ends; line 133 fetches the leases
ArpDone ==
    /\ pass.pc = "arp"
    /\ pass' = [pass EXCEPT !.pc = "dhcp", !.n = 0, !.offered = ""]
    /\ UNCHANGED <<otherVars, clock, ticks, vendorVars, discovered_devices, dict_order,
                   evicted, devices, last_call, lifeVars>>

ProcessDhcp ==
    /\ pass.pc = "dhcp"
    /\ pass.n < MaxFeed
    /\ \E lease \in DHCPLeases, looked_up \in LookupResults :
         ProcessRecord(lease, "dhcp", looked_up)
    /\ UNCHANGED <<otherVars, clock, ticks, vendorVars, evicted, devices, last_call, lifeVars>>

\* the lease loop ends
DhcpDone ==
    /\ pass.pc = "dhcp"
    /\ pass' = [pass EXCEPT !.pc = "evict", !.n = 0, !.offered = ""]
    /\ UNCHANGED <<otherVars, clock, ticks, vendorVars, discovered_devices, dict_order,
                   evicted, devices, last_call, lifeVars>>

\* lines 163-167: delete the stale records that were not reported
Evict ==
    /\ pass.pc = "evict"
    /\ LET out == {mac \in DOMAIN discovered_devices :
                      ShouldEvict(mac, discovered_devices[mac], pass.now,
                                  pass.current_macs)}
       IN  /\ discovered_devices' =
                  [mac \in DOMAIN discovered_devices \ out |-> discovered_devices[mac]]
           /\ dict_order' = SelectSeq(dict_order, LAMBDA k : k \notin out)
           /\ evicted' = out
           /\ pass' = [pass EXCEPT !.pc = "return"]
    /\ UNCHANGED <<otherVars, clock, ticks, vendorVars, devices, last_call, lifeVars>>

\* line 169: return new_devices
PassReturn ==
    /\ pass.pc = "return"
    /\ pass' = [pass EXCEPT !.pc = "idle"]
    /\ UNCHANGED <<otherVars, clock, ticks, vendorVars, discovered_devices, dict_order,
                   evicted, devices, last_call, lifeVars>>

(***************************************************************************)
(* get_discovered_devices (list) and add_to_monitored_devices (promote).   *)
(***************************************************************************)
RECURSIVE InsertAsc(_, _)
InsertAsc(sorted, k) ==
    IF sorted = <<>> THEN <<k>>
    ELSE IF discovered_devices[Head(sorted)].first_seen
              <= discovered_devices[k].first_seen
         THEN <<Head(sorted)>> \o InsertAsc(Tail(sorted), k)
         ELSE <<k>> \o sorted

\* list.sort(key=first_seen, reverse=True): stable insertion into a sorted list
RECURSIVE InsertDesc(_, _)
InsertDesc(sorted, k) ==
    IF sorted = <<>> THEN <<k>>
    ELSE IF discovered_devices[Head(sorted)].first_seen
              >= discovered_devices[k].first_seen
         THEN <<Head(sorted)>> \o InsertDesc(Tail(sorted), k)
         ELSE <<k>> \o sorted

RECURSIVE SortDesc(_)
SortDesc(keys) ==
    IF keys = <<>> THEN <<>>
    ELSE InsertDesc(SortDesc(SubSeq(keys, 1, Len(keys) - 1)), keys[Len(keys)])

\* get_discovered_devices: the records are returned by reference (their keys)
GetDiscoveredDevices(only_new) ==
    SortDesc(SelectSeq(dict_order,
                       LAMBDA k : ~only_new \/ discovered_devices[k].is_new))

List ==
    /\ pass.pc = "idle"
    /\ \E only_new \in BOOLEAN :
         last_call' = [op |-> "list", arg |-> only_new,
                       result |-> GetDiscoveredDevices(only_new)]
    /\ UNCHANGED <<otherVars, clock, ticks, vendorVars, discovered_devices, dict_order,
                   pass, evicted, devices, lifeVars>>

PromoteMacs == {MacLower, MacUpper, MacPlain}
Sites == {"site1"}

\* mac_address[-6:]
LastSixChars(cs) == SubSeq(cs, Len(cs) - 5, Len(cs))
LastSixOf == [s \in {MacLower, MacUpper, MacPlain} |-> Str(LastSixChars(Chars(s)))]
LastSix(mac) == LastSixOf[mac]

NewDeviceEnabled(mac_address, site_id, device_info) ==
    [id |-> None,
     name |-> IF device_info.hostname # "" THEN <<device_info.hostname>>
              ELSE IF device_info.vendor # "Unknown"
                   THEN <<device_info.vendor, LastSix(mac_address)>>
                   ELSE <<"Thiet bi", LastSix(mac_address)>>,
     host |-> device_info.ip_address,
     mac_address |-> mac_address,
     site_id |-> site_id,
     port |-> "8728",
     username |-> "admin",
     password |-> "",
     enabled |-> TRUE,
     use_ssl |-> FALSE,
     vendor |-> device_info.vendor,
     device_type |-> device_info.device_type,
     comment |-> <<device_info.source, device_info.first_seen>>]

\* lines 195-220: the monitored-device record synthesised from the inventory
NewDevice(mac_address, site_id, device_info) ==
    [id |-> None,
     name |-> IF device_info.hostname # "" THEN <<device_info.hostname>>
              ELSE IF device_info.vendor # "Unknown"
                   THEN <<device_info.vendor, LastSix(mac_address)>>
                   ELSE <<"Thiet bi", LastSix(mac_address)>>,
     host |-> device_info.ip_address,
     mac_address |-> mac_address,
     site_id |-> site_id,
     port |-> "8728",
     username |-> "admin",
     password |-> "",
     enabled |-> FALSE,
     use_ssl |-> FALSE,
     vendor |-> device_info.vendor,
     device_type |-> device_info.device_type,
     comment |-> <<device_info.source, device_info.first_seen>>]

\* the identifiers the store hands out, in order
StoreIds ==
    <<"dev-1", "dev-2", "dev-3", "dev-4", "dev-5", "dev-6", "dev-7", "dev-8">>

\* config.add_device: the store appends the record under a fresh identifier
ConfigAddDevice(store, new_device) ==
    Append(store, [new_device EXCEPT !.id = StoreIds[Len(store) + 1]])

ExistingMatchesById(store, mac_address) ==
    {i \in 1..Len(store) : store[i].id = mac_address}

\* line 191: the stored devices whose MAC equals mac_address ignoring case
ExistingMatches(store, mac_address) ==
    {i \in 1..Len(store) : Upper(store[i].mac_address) = Upper(mac_address)}

\* line 227: the stored devices whose MAC equals mac_address exactly
ExactMatches(store, mac_address) ==
    {i \in 1..Len(store) : store[i].mac_address = mac_address}

\* lines 190-192 and 226-230: the id of the first hit of the loop, or None
FirstId(store, hits) ==
    IF hits # {}
    THEN store[CHOOSE i \in hits : \A j \in hits : i <= j].id
    ELSE None

PromoteIgnoringCase ==
    /\ pass.pc = "idle"
    /\ \E mac_address \in PromoteMacs, site_id \in Sites :
         IF Upper(mac_address) \notin DOMAIN discovered_devices
         THEN /\ devices' = devices
              /\ last_call' = [op |-> "promote", arg |-> mac_address,
                               result |-> None, added |-> FALSE]
         ELSE IF ExistingMatches(devices, mac_address) # {}
         THEN /\ devices' = devices
              /\ last_call' = [op |-> "promote", arg |-> mac_address,
                               result |-> FirstId(devices,
                                              ExistingMatches(devices, mac_address)),
                               added |-> FALSE]
         ELSE /\ devices' = ConfigAddDevice(devices,
                               NewDevice(mac_address, site_id,
                                         discovered_devices[Upper(mac_address)]))
              /\ last_call' = [op |-> "promote", arg |-> mac_address,
                               result |-> FirstId(devices',
                                              ExactMatches(devices', mac_address)),
                               added |-> TRUE]
    /\ UNCHANGED <<otherVars, clock, ticks, vendorVars, discovered_devices, dict_order,
                   pass, evicted, lifeVars>>

\* add_to_monitored_devices; added: config.add_device was called
Promote ==
    /\ pass.pc = "idle"
    /\ \E mac_address \in PromoteMacs, site_id \in Sites :
         IF mac_address \notin DOMAIN discovered_devices
         THEN /\ devices' = devices
              /\ last_call' = [op |-> "promote", arg |-> mac_address,
                               result |-> None, added |-> FALSE]
         ELSE IF ExistingMatches(devices, mac_address) # {}
         THEN /\ devices' = devices
              /\ last_call' = [op |-> "promote", arg |-> mac_address,
                               result |-> FirstId(devices,
                                              ExistingMatches(devices, mac_address)),
                               added |-> FALSE]
         ELSE /\ devices' = ConfigAddDevice(devices,
                               NewDevice(mac_address, site_id,
                                         discovered_devices[mac_address]))
              /\ last_call' = [op |-> "promote", arg |-> mac_address,
                               result |-> FirstId(devices',
                                              ExactMatches(devices', mac_address)),
                               added |-> TRUE]
    /\ UNCHANGED <<otherVars, clock, ticks, vendorVars, discovered_devices, dict_order,
                   pass, evicted, lifeVars>>

\* a device an operator entered by hand, its MAC typed in lower case
ManualDevice ==
    [id |-> None, name |-> <<"router">>, host |-> "10.0.0.1",
     mac_address |-> MacLower, site_id |-> "site1", port |-> "8728",
     username |-> "admin", password |-> "secret", enabled |-> TRUE,
     use_ssl |-> FALSE, vendor |-> "Unknown", device_type |-> "Unknown",
     comment |-> <<>>]

InitPassive ==
    /\ clock = StartTime
    /\ ticks = 0
    /\ InitVendorPart
    /\ InitPassivePart
    /\ InitLifePart
    /\ InitOtherPart

TickPassive == Tick(PassiveDelays, MaxPassiveTicks) /\ UNCHANGED <<otherVars, vendorVars, passiveVars, lifeVars>>

\* the passive pass and the query calls
NextPassive ==
    \/ TickPassive
    \/ PassBegin
    \/ ProcessArp
    \/ ArpDone
    \/ ProcessDhcp
    \/ DhcpDone
    \/ Evict
    \/ PassReturn
    \/ List

SpecPassive == InitPassive /\ [][NextPassive]_vars

\* the same with promotion into the monitored-device store
NextStore ==
    \/ NextPassive
    \/ Promote

\* the store is empty or holds the device entered by hand
InitStore ==
    /\ clock = StartTime
    /\ ticks = 0
    /\ InitVendorPart
    /\ discovered_devices = EmptyMap
    /\ dict_order = <<>>
    /\ pass = IdlePass
    /\ evicted = {}
    /\ devices \in {<<>>, ConfigAddDevice(<<>>, ManualDevice)}
    /\ last_call = [op |-> "none"]
    /\ InitLifePart
    /\ InitOtherPart

SpecStore == InitStore /\ [][NextStore]_vars

(***************************************************************************)
(* Lifecycle: start_discovery(), stop_discovery(), discovery_worker().     *)
(* A Thread object is unborn (not yet constructed), created (constructed,  *)
(* not started), at the top of its loop, inside a cycle, asleep, or        *)
(* exited.  Callers of start_discovery() take one step per line.           *)
(***************************************************************************)
AlivePcs == {"top", "cycle", "sleep"}

\* line 280: discovery_thread and discovery_thread.is_alive()
ThreadAlive ==
    /\ discovery_thread # 0
    /\ workers[discovery_thread].pc \in AlivePcs

\* lines 280-282: a call returns at once when the thread is alive
StartCheck(c) ==
    /\ starters[c].pc = "idle"
    /\ nstarts < MaxStarts
    /\ nstarts' = nstarts + 1
    /\ starters' = IF ThreadAlive THEN starters
                   ELSE [starters EXCEPT ![c].pc = "flag"]
    /\ UNCHANGED <<otherVars, clock, ticks, vendorVars, passiveVars, running,
                   discovery_thread, workers>>

\* line 284: running = True
StartFlag(c) ==
    /\ starters[c].pc = "flag"
    /\ running' = TRUE
    /\ starters' = [starters EXCEPT ![c].pc = "create"]
    /\ UNCHANGED <<otherVars, clock, ticks, vendorVars, passiveVars, discovery_thread,
                   workers, nstarts>>

\* the Thread object the next threading.Thread(...) call constructs
NextWorker == CHOOSE w \in WorkerIds :
                 /\ workers[w].pc = "unborn"
                 /\ \A v \in WorkerIds : workers[v].pc = "unborn" => w <= v

\* line 285: discovery_thread = threading.Thread(target=discovery_worker, ...)
StartCreate(c) ==
    /\ starters[c].pc = "create"
    /\ workers' = [workers EXCEPT ![NextWorker].pc = "created"]
    /\ discovery_thread' = NextWorker
    /\ starters' = [starters EXCEPT ![c].pc = "start"]
    /\ UNCHANGED <<otherVars, clock, ticks, vendorVars, passiveVars, running, nstarts>>

\* line 286: discovery_thread.start() on the global; a Thread that was
\* started already raises RuntimeError and the call ends
StartThread(c) ==
    /\ starters[c].pc = "start"
    /\ workers' = IF workers[discovery_thread].pc = "created"
                  THEN [workers EXCEPT ![discovery_thread].pc = "top"]
                  ELSE workers
    /\ starters' = [starters EXCEPT ![c].pc = "idle"]
    /\ UNCHANGED <<otherVars, clock, ticks, vendorVars, passiveVars, running,
                   discovery_thread, nstarts>>

\* stop_discovery, line 294: running = False
Stop ==
    /\ running' = FALSE
    /\ UNCHANGED <<otherVars, clock, ticks, vendorVars, passiveVars, discovery_thread,
                   workers, starters, nstarts>>

WorkerTopIgnoringFlag(w) ==
    /\ workers[w].pc = "top"
    /\ workers' = [workers EXCEPT ![w].pc = "cycle"]
    /\ UNCHANGED <<otherVars, clock, ticks, vendorVars, passiveVars, running,
                   discovery_thread, starters, nstarts>>

\* line 260: while running
WorkerTop(w) ==
    /\ workers[w].pc = "top"
    /\ workers' = [workers EXCEPT ![w].pc = IF running THEN "cycle" ELSE "exited"]
    /\ UNCHANGED <<otherVars, clock, ticks, vendorVars, passiveVars, running,
                   discovery_thread, starters, nstarts>>

\* lines 263-269: detect_new_devices() returns; time.sleep(SCAN_INTERVAL)
CycleReturn(w) ==
    /\ workers[w].pc = "cycle"
    /\ workers' = [workers EXCEPT ![w] = [pc |-> "sleep",
                                          sleep_for |-> SCAN_INTERVAL,
                                          raised |-> FALSE]]
    /\ UNCHANGED <<otherVars, clock, ticks, vendorVars, passiveVars, running,
                   discovery_thread, starters, nstarts>>

CycleRaiseUncaught(w) ==
    /\ workers[w].pc = "cycle"
    /\ workers' = [workers EXCEPT ![w] = [pc |-> "exited", sleep_for |-> 0,
                                          raised |-> TRUE]]
    /\ UNCHANGED <<otherVars, clock, ticks, vendorVars, passiveVars, running,
                   discovery_thread, starters, nstarts>>

\* lines 271-273: the cycle raises; except Exception: time.sleep(SCAN_INTERVAL)
CycleRaise(w) ==
    /\ workers[w].pc = "cycle"
    /\ workers' = [workers EXCEPT ![w] = [pc |-> "sleep",
                                          sleep_for |-> SCAN_INTERVAL,
                                          raised |-> TRUE]]
    /\ UNCHANGED <<otherVars, clock, ticks, vendorVars, passiveVars, running,
                   discovery_thread, starters, nstarts>>

\* time.sleep() returns; back to line 260
WorkerWake(w) ==
    /\ workers[w].pc = "sleep"
    /\ workers' = [workers EXCEPT ![w].pc = "top", ![w].sleep_for = 0]
    /\ UNCHANGED <<otherVars, clock, ticks, vendorVars, passiveVars, running,
                   discovery_thread, starters, nstarts>>

WorkerStep(w) ==
    \/ WorkerTop(w)
    \/ CycleReturn(w)
    \/ CycleRaise(w)
    \/ WorkerWake(w)

NextLifecycle ==
    \/ \E c \in Starters : StartCheck(c)
    \/ \E c \in Starters : StartFlag(c)
    \/ \E c \in Starters : StartCreate(c)
    \/ \E c \in Starters : StartThread(c)
    \/ Stop
    \/ \E w \in WorkerIds : WorkerTop(w)
    \/ \E w \in WorkerIds : CycleReturn(w)
    \/ \E w \in WorkerIds : CycleRaise(w)
    \/ \E w \in WorkerIds : WorkerWake(w)

SpecLifecycle == InitPassive /\ [][NextLifecycle]_vars

\* a started thread is scheduled again and again until it exits
SpecLifecycleFair ==
    /\ InitPassive
    /\ [][NextLifecycle]_vars
    /\ \A w \in WorkerIds : WF_vars(WorkerStep(w))

(***************************************************************************)
(* Claims about the passive discovery store.                               *)
(***************************************************************************)
Present == DOMAIN discovered_devices
Kept == DOMAIN discovered_devices \cap DOMAIN discovered_devices'
Created == DOMAIN discovered_devices' \ DOMAIN discovered_devices
Range(seq) == {seq[i] : i \in 1..Len(seq)}
EvictStep == pass.pc = "evict" /\ pass'.pc = "return"

\* C4: no step lowers the last_seen of a record that stays in the inventory.
C4_LastSeenNeverDecreases ==
    [][\A m \in Kept :
          discovered_devices'[m].last_seen >= discovered_devices[m].last_seen]_vars

\* C5: first_seen is the clock reading at the step that creates the record,
\* and no step (feed record, eviction loop, list, promote) changes it while
\* the record stays in the inventory.
C5_FirstSeenSetOnce ==
    [][/\ \A m \in Created : discovered_devices'[m].first_seen = clock
       /\ \A m \in Kept :
            discovered_devices'[m].first_seen = discovered_devices[m].first_seen]_vars

\* a record re-observed later than its creation, with a promotion just made
C5_Witness ==
    /\ last_call.op = "promote"
    /\ last_call.result # None
    /\ \E m \in Present :
         discovered_devices[m].last_seen > discovered_devices[m].first_seen

\* C6: once is_new is false it stays false in every step that keeps the record.
C6_IsNewStaysFalse ==
    [][\A m \in Kept :
          ~discovered_devices[m].is_new => ~discovered_devices'[m].is_new]_vars

\* a record that is no longer new has been observed again by the current pass
C6_Witness ==
    /\ pass.pc = "return"
    /\ \E m \in Present \cap pass.current_macs :
         /\ ~discovered_devices[m].is_new
         /\ pass.now - discovered_devices[m].first_seen > NEW_DEVICE_THRESHOLD

\* C7: at the end of a pass run at time now, every record whose MAC the
\* pass reported has is_new = (now - first_seen < NEW_DEVICE_THRESHOLD);
\* a record created by the pass has first_seen >= now, hence is_new = true.
C7_IsNewByAge ==
    pass.pc = "return" =>
        \A m \in pass.current_macs :
            /\ m \in Present
            /\ discovered_devices[m].is_new
                 = (pass.now - discovered_devices[m].first_seen < NEW_DEVICE_THRESHOLD)
            /\ (m \in Range(pass.new_devices) => discovered_devices[m].is_new)

\* a pass re-fed a MAC 301 seconds after its creation
C7_Witness ==
    /\ pass.pc = "return"
    /\ \E m \in Present \cap pass.current_macs :
         /\ pass.now - discovered_devices[m].first_seen = NEW_DEVICE_THRESHOLD + 1
         /\ ~discovered_devices[m].is_new

\* C8: the hostname of a record that stays in the inventory changes only in
\* a step of the lease loop, only from empty, and only to the hostname of
\* the lease just processed.
C8_HostnameOnlyFromLease ==
    [][\A m \in Kept :
          discovered_devices'[m].hostname # discovered_devices[m].hostname
              => /\ pass.pc = "dhcp"
                 /\ pass'.pc = "dhcp"
                 /\ discovered_devices[m].hostname = ""
                 /\ discovered_devices'[m].hostname = pass'.offered]_vars

\* an ARP record has just been processed for a MAC first known from ARP
\* whose hostname a lease supplied earlier
C8_Witness ==
    /\ pass.pc = "arp"
    /\ pass.n > 0
    /\ \E m \in Present \cap pass.current_macs :
         /\ discovered_devices[m].source = "arp"
         /\ discovered_devices[m].hostname # ""
         /\ m \notin Range(pass.new_devices)

\* C9: a step deletes a record exactly when it is the eviction loop of a
\* pass, the record's last_seen is more than INACTIVE_SECONDS before the
\* pass's now, and the pass did not report its MAC.
C9_EvictIffStaleAndAbsent ==
    [][\A m \in Present :
          (m \notin DOMAIN discovered_devices')
              <=> /\ EvictStep
                  /\ pass.now - discovered_devices[m].last_seen > INACTIVE_SECONDS
                  /\ m \notin pass.current_macs]_vars

\* a pass deleted a record and kept another, reported, one that is older
\* than the threshold
C9_Witness ==
    /\ pass.pc = "return"
    /\ evicted # {}
    /\ \E m \in Present \cap pass.current_macs :
         pass.now - discovered_devices[m].first_seen > INACTIVE_SECONDS

\* C10: the eviction loop removes every record not reported by the pass
\* whose last_seen is 25 hours or more before the pass's now; and a step
\* that creates a record (a first sighting or a reappearance) sets
\* first_seen to the clock reading, is_new to true, and puts the record in
\* the pass's list of new entries.
C10_EvictedThenBrandNew ==
    [][/\ \A m \in Present :
            (/\ EvictStep
             /\ m \notin pass.current_macs
             /\ pass.now - discovered_devices[m].last_seen >= 25 * 3600)
                => m \notin DOMAIN discovered_devices'
       /\ \A m \in Created :
            /\ discovered_devices'[m].first_seen = clock
            /\ discovered_devices'[m].first_seen >= pass.now
            /\ discovered_devices'[m].is_new
            /\ m \in Range(pass'.new_devices)]_vars

\* a MAC deleted by the previous pass after 25 hours of absence is back
C10_Witness ==
    /\ pass.pc \in {"arp", "dhcp", "evict"}
    /\ \E m \in evicted \cap Present :
         /\ m \in Range(pass.new_devices)
         /\ discovered_devices[m].is_new
         /\ discovered_devices[m].first_seen >= StartTime + 25 * 3600

\* 12 characters, none a separator, no lower-case letter
IsFullHexKey(m) ==
    LET cs == Chars(m)
    IN  /\ Len(cs) = 12
        /\ \A i \in 1..Len(cs) : cs[i] \notin Separators /\ UpperChar(cs[i]) = cs[i]

\* C11: every key of the inventory is a fully normalized MAC: 12 upper-case
\* hex characters without separators (so that spellings of one MAC that
\* differ in case or separators share one entry).
C11_KeysFullyNormalized ==
    \A m \in DOMAIN discovered_devices : IsFullHexKey(m)

\* C12: the list a pass returns holds exactly the records the pass created:
\* the keys reported by a feed (non-empty MAC) that the inventory did not
\* hold when the pass began, each once, and no key it held before.
C12_ReturnsCreatedRecords ==
    pass.pc = "return" =>
        /\ Range(pass.new_devices) = pass.current_macs \ pass.before
        /\ Len(pass.new_devices) = Cardinality(Range(pass.new_devices))
        /\ MacEmpty \notin Range(pass.new_devices)
        /\ Range(pass.new_devices) \cap pass.before = {}

\* a pass created a record from an ARP entry and met the same MAC again in
\* a lease (which supplied the hostname); the record is listed once
C12_Witness ==
    /\ pass.pc = "return"
    /\ \E m \in Range(pass.new_devices) :
         /\ discovered_devices[m].source = "arp"
         /\ discovered_devices[m].hostname # ""

(***************************************************************************)
(* Claims about the lifecycle controls.                                    *)
(***************************************************************************)
Alive(w) == workers[w].pc \in AlivePcs
Iterating == {w \in WorkerIds : workers[w].pc = "cycle"}

\* C13: a start_discovery() call made while the loop is running (the flag
\* is set and a worker thread is alive) returns without changing the flag,
\* the thread reference or any worker: no second worker is created or
\* started.
C13_StartWhileRunningIsNoOp ==
    [][(/\ nstarts' = nstarts + 1
        /\ running
        /\ \E w \in WorkerIds : Alive(w))
           => /\ running' = running
              /\ discovery_thread' = discovery_thread
              /\ workers' = workers
              /\ starters' = starters]_vars

\* C14: at most one worker is inside an iteration of the passive cycle.
C14_OneIterationAtATime == Cardinality(Iterating) <= 1

\* C15: stop_discovery() interrupts no worker (the step that clears the flag
\* changes no worker, and a worker inside a cycle leaves it only into its
\* sleep); no iteration begins while the flag is clear; and if the flag
\* stays clear from some point on (no later start), eventually no worker
\* is alive.
C15_StopIsGraceful ==
    /\ [][/\ (running /\ ~running') => workers' = workers
          /\ \A w \in WorkerIds :
               /\ (workers[w].pc # "cycle" /\ workers'[w].pc = "cycle") => running
               /\ (workers[w].pc = "cycle" /\ workers'[w] # workers[w])
                      => workers'[w].pc = "sleep"]_vars
    /\ (<>[](~running)) => <>[](\A w \in WorkerIds : ~Alive(w))

\* stop was called while an iteration was in progress
C15_Witness ==
    /\ ~running
    /\ Iterating # {}
    /\ \A c \in Starters : starters[c].pc = "idle"

\* C16: a cycle that raises leaves its worker asleep for SCAN_INTERVAL, not
\* exited; and a worker asleep after a raise eventually starts a further
\* iteration unless the running flag is cleared.
C16_RaiseDoesNotEndLoop ==
    /\ [][\A w \in WorkerIds :
             (/\ workers[w].pc = "cycle"
              /\ workers'[w] # workers[w]
              /\ workers'[w].raised)
                 => /\ workers'[w].pc = "sleep"
                    /\ workers'[w].sleep_for = SCAN_INTERVAL]_vars
    /\ \A w \in WorkerIds :
          (workers[w].pc = "sleep" /\ workers[w].raised)
              ~> (workers[w].pc = "cycle" \/ ~running)

\* a worker is inside the iteration that followed a cycle that raised
C16_Witness ==
    \E w \in WorkerIds : workers[w].pc = "cycle" /\ workers[w].raised

(***************************************************************************)
(* Claims about the query and promotion calls.                             *)
(***************************************************************************)
\* the store holds a device whose MAC equals mac ignoring case
Held(store, mac) ==
    \E i \in 1..Len(store) : Upper(store[i].mac_address) = Upper(mac)

\* C17: a list call returns, without duplicates, every inventory record
\* (only_new false) or exactly those with is_new true (only_new true),
\* ordered by first_seen descending, and leaves the inventory as it was.
C17_ListFiltersAndSorts ==
    [][(last_call'.op = "list" /\ last_call' # last_call) =>
          LET r == last_call'.result
              only_new == last_call'.arg
          IN  /\ discovered_devices' = discovered_devices
              /\ dict_order' = dict_order
              /\ Range(r) = {m \in DOMAIN discovered_devices :
                                ~only_new \/ discovered_devices[m].is_new}
              /\ Len(r) = Cardinality(Range(r))
              /\ \A i \in 1..(Len(r) - 1) :
                   discovered_devices[r[i]].first_seen
                       >= discovered_devices[r[i + 1]].first_seen]_vars

\* a full listing of two records, the later-created one first and the
\* older one no longer new
C17_Witness ==
    /\ last_call.op = "list"
    /\ last_call.arg = FALSE
    /\ Len(last_call.result) = 2
    /\ discovered_devices[last_call.result[1]].first_seen
           > discovered_devices[last_call.result[2]].first_seen
    /\ ~discovered_devices[last_call.result[2]].is_new

\* C18: a promote call whose mac is not a key of the inventory returns None
\* (not_found) and leaves the monitored-device store as it was.
C18_PromoteAbsentIsNotFound ==
    [][(last_call'.op = "promote"
           /\ last_call'.arg \notin DOMAIN discovered_devices)
          => /\ devices' = devices
             /\ last_call'.result = None]_vars

\* not_found for a spelling that is no key, with a non-empty inventory and
\* a non-empty store
C18_Witness ==
    /\ last_call.op = "promote"
    /\ last_call.arg = MacLower
    /\ last_call.result = None
    /\ MacUpper \in DOMAIN discovered_devices
    /\ devices # <<>>

\* C19: a promote call for a key of the inventory returns an identifier and
\* adds at most one record; it adds none when the store already holds a
\* device whose MAC matches ignoring case; and a call that follows a
\* successful call for the same mac returns the same identifier and adds
\* nothing.
C19_PromoteIdempotent ==
    [][(last_call'.op = "promote"
           /\ last_call'.arg \in DOMAIN discovered_devices)
          => /\ last_call'.result # None
             /\ Len(devices') <= Len(devices) + 1
             /\ SubSeq(devices', 1, Len(devices)) = devices
             /\ Held(devices, last_call'.arg) => devices' = devices
             /\ (/\ last_call.op = "promote"
                 /\ last_call.arg = last_call'.arg
                 /\ last_call.result # None)
                    => /\ devices' = devices
                       /\ last_call'.result = last_call.result]_vars

\* the second of two calls for one mac: it found the record the first added
C19_Witness ==
    /\ last_call.op = "promote"
    /\ last_call.result # None
    /\ ~last_call.added
    /\ \E i \in 1..Len(devices) :
         /\ devices[i].mac_address = last_call.arg
         /\ devices[i].id = last_call.result
         /\ devices[i].comment # <<>>

\* C20: every record a step appends to the monitored-device store has
\* enabled = FALSE.
C20_PromotedDisabled ==
    [][\A i \in (Len(devices) + 1)..Len(devices') : ~devices'[i].enabled]_vars

\* promotion has written two records
C20_Witness ==
    /\ last_call.op = "promote"
    /\ last_call.added
    /\ Cardinality({i \in 1..Len(devices) : devices[i].comment # <<>>}) = 2

(***************************************************************************)
(* Claims about the provider round and the write-through of lookup().      *)
(***************************************************************************)

\* C22: the providers are asked in their fixed order; the round's result is
\* the answer of the first provider that answers HTTP 200 and no later
\* provider is asked; a provider that answers non-200 or raises is skipped
\* and the next is asked, whose success envelope with vendor V makes V the
\* result; lookup() returns the result of its round.
C22_FirstAnswerWins ==
    [][\A t \in Threads :
          /\ (thr[t].pc = "online" /\ thr'[t].pc = "stamp")
                => LET a == thr'[t].answers
                   IN  /\ Len(a) >= 1
                       /\ a[1] \in TextResponses
                       /\ (a[1].status = 200
                             => Len(a) = 1 /\ thr'[t].vendor = a[1].text)
                       /\ (a[1].status # 200
                             => /\ Len(a) = 2
                                /\ a[2] \in JsonResponses
                                /\ (a[2].status = 200 /\ a[2].success
                                        /\ a[2].data \in Vendors
                                      => thr'[t].vendor = a[2].data))
          /\ (thr[t].called /\ thr[t].pc # "done" /\ thr'[t].pc = "done")
                => thr'[t].ret = thr[t].vendor]_vars

\* the primary answered HTTP 500, the secondary a success envelope carrying
\* "Acme", and the round's result is "Acme"
C22_Witness ==
    \E t \in Threads :
        /\ thr[t].pc = "stamp"
        /\ Len(thr[t].answers) = 2
        /\ thr[t].answers[1].status = 500
        /\ thr[t].answers[2] = [status |-> 200, success |-> TRUE, data |-> "Acme"]
        /\ thr[t].vendor = "Acme"

\* C23: when lookup() is about to return a vendor it obtained from a
\* provider, the in-memory cache maps the OUI to that vendor with the time of
\* the lookup, and the persisted file holds the whole in-memory map, that
\* entry included.
C23_WrittenThrough ==
    \A t \in Threads :
        (thr[t].pc = "done" /\ thr[t].called /\ ~thr[t].exhausted
            /\ Truthy(thr[t].vendor))
            => LET n == thr[t].normalized_mac
                   e == <<thr[t].vendor, thr[t].current_time>>
               IN  /\ n \in DOMAIN cache /\ cache[n] = e
                   /\ n \in DOMAIN file /\ file[n] = e
                   /\ \A k \in DOMAIN cache : k \in DOMAIN file

\* C24: with a single caller, an external round of a cache-missing lookup
\* starts no sooner than request_interval seconds after the start of the
\* caller's previous external round, however soon the second lookup was
\* issued after the first returned.
C24_SingleCallerSpaced ==
    [][(thr["t1"].pc = "online" /\ thr'["t1"].pc = "stamp" /\ rounds # <<>>)
          => clock - rounds[Len(rounds)] >= request_interval]_vars

\* the second lookup was issued at the clock reading of the first round,
\* slept, and started its own round
C24_Witness ==
    /\ Len(rounds) = 2
    /\ thr["t1"].pc = "stamp"
    /\ thr["t1"].current_time = rounds[1]
    /\ rounds[2] = rounds[1] + request_interval

(***************************************************************************)
(* _normalize_mac() on its own: any argument of up to MaxMacLen characters *)
(* over lower-case and upper-case hex letters, a digit and a separator;    *)
(* the function is applied to the argument and then to its own result.     *)
(***************************************************************************)
MacAlphabet == {"a", "B", "1", ":"}

MacArguments == UNION {[1..n -> MacAlphabet] : n \in 0..MaxMacLen}

\* the value the next call is given
NormalizeInput ==
    IF normalizing.results = <<>> THEN normalizing.mac
    ELSE normalizing.results[Len(normalizing.results)]

\* one call of _normalize_mac (mac_vendor.py lines 54-64)
NormalizeCall ==
    /\ Len(normalizing.results) < MaxApplications
    /\ normalizing' = [normalizing EXCEPT
                          !.results = Append(@, NormalizeChars(NormalizeInput))]
    /\ UNCHANGED <<clock, ticks, vendorVars, passiveVars, lifeVars, scanVars,
                   callerVars, storageVars, promoteVars>>

InitNormalize ==
    /\ clock = StartTime
    /\ ticks = 0
    /\ InitVendorPart
    /\ InitPassivePart
    /\ InitLifePart
    /\ InitScanPart
    /\ InitCallerPart
    /\ InitStoragePart
    /\ InitPromotePart
    /\ normalizing \in [mac : MacArguments, results : {<<>>}]

SpecNormalize == InitNormalize /\ [][NormalizeCall]_vars

RangeA == "10.0.0.0/30"
RangeB == "10.0.1.0/30"
Malformed == "10.0.0.300/24"
NetworkRanges == {RangeA, RangeB, Malformed}

\* ipaddress.ip_network(network_range) returns; it raises ValueError otherwise
ParsesAsNetwork(network_range) == network_range \in {RangeA, RangeB}

\* list(network.hosts()): network and broadcast address excluded
Hosts(network_range) ==
    CASE network_range = RangeA -> <<"10.0.0.1", "10.0.0.2">>
      [] network_range = RangeB -> <<"10.0.1.1", "10.0.1.2">>

\* the pool sizes scan_network() is called with
PoolSizes == {1, 5, 50}

\* the lists of ranges run_discovery() is called with
RangeLists == UNION {[1..n -> NetworkRanges] : n \in 1..MaxRanges}

ScanSites == {"site2"}

\* what a host does to its probe: the port refuses, the login or a later
\* exchange fails, the device answers, or the socket cannot be created
Outcomes == {"closed", "rejected", "device", "raised"}

\* lines 106-117: the candidate built from the identity and resource facts
\* (the uuid4 identifier is a token unique to the probe; site_id is absent)
DeviceInfo(ip, ri) ==
    [id |-> <<"uuid", ri, ip>>, name |-> <<"MikroTik">>, host |-> ip,
     port |-> "8728", username |-> "admin", password |-> "secret",
     board_name |-> "hAP", version |-> "7.1", enabled |-> TRUE,
     use_ssl |-> FALSE, site_id |-> None]

CheckMikrotikDeviceTrusting(ip, ri, outcome) ==
    [raised |-> outcome = "raised",
     device_info |-> IF outcome # "raised" THEN <<DeviceInfo(ip, ri)>> ELSE <<>>]

\* check_mikrotik_device: what the future holds, an exception or a value;
\* the value is a candidate (a list of one) or None (the empty list)
CheckMikrotikDevice(ip, ri, outcome) ==
    [raised |-> outcome = "raised",
     device_info |-> IF outcome = "device" THEN <<DeviceInfo(ip, ri)>> ELSE <<>>]

PendingFuture ==
    [st |-> "pending", outcome |-> "",
     value |-> [raised |-> FALSE, device_info |-> <<>>]]

CallScanNetwork(network_range, max_workers) ==
    [IdleScan EXCEPT !.pc = "range", !.call = "scan_network",
                     !.network_ranges = <<network_range>>,
                     !.max_workers = max_workers, !.ri = 1]

\* run_discovery() leaves max_workers at scan_network's default
CallRunDiscovery(network_ranges, site_id) ==
    [IdleScan EXCEPT !.pc = "range", !.call = "run_discovery",
                     !.network_ranges = network_ranges,
                     !.max_workers = DefaultMaxWorkers,
                     !.site_id = site_id, !.ri = 1]

scanFrame == <<clock, ticks, vendorVars, lifeVars, normVars, callerVars,
               storageVars, promoteVars,
               discovered_devices, dict_order, pass, evicted, last_call>>

ScanBeginAborting ==
    /\ scan.pc = "range"
    /\ scan.ri <= Len(scan.network_ranges)
    /\ LET network_range == scan.network_ranges[scan.ri]
           all_ips == Hosts(network_range)
       IN  IF ~ParsesAsNetwork(network_range)
           THEN scan' = [scan EXCEPT !.pc = "raised"]
           ELSE scan' = [scan EXCEPT
                    !.pc = "pool",
                    !.all_ips = all_ips,
                    !.futures = [i \in 1..Len(all_ips) |-> PendingFuture],
                    !.found_devices = <<>>]
    /\ UNCHANGED <<scanFrame, devices>>

\* scan_network lines 35-47: parse the range, submit one probe per host.
\* A ValueError leaves scan_network; run_discovery catches it (line 186)
\* and goes on with the next range.
ScanBegin ==
    /\ scan.pc = "range"
    /\ scan.ri <= Len(scan.network_ranges)
    /\ LET network_range == scan.network_ranges[scan.ri]
           all_ips == Hosts(network_range)
       IN  IF ~ParsesAsNetwork(network_range)
           THEN IF scan.call = "scan_network"
                THEN scan' = [scan EXCEPT !.pc = "raised"]
                ELSE scan' = [scan EXCEPT
                        !.ri = @ + 1,
                        !.per_range = Append(@, [failed |-> TRUE,
                                                 devices |-> <<>>])]
           ELSE scan' = [scan EXCEPT
                    !.pc = "pool",
                    !.all_ips = all_ips,
                    !.futures = [i \in 1..Len(all_ips) |-> PendingFuture],
                    !.found_devices = <<>>]
    /\ UNCHANGED <<scanFrame, devices>>

\* a pool thread takes the oldest submitted probe when one is free
ProbeStart(i) ==
    /\ scan.pc = "pool"
    /\ scan.futures[i].st = "pending"
    /\ \A j \in 1..(i - 1) : scan.futures[j].st # "pending"
    /\ Cardinality({j \in DOMAIN scan.futures : scan.futures[j].st = "running"})
          < scan.max_workers
    /\ scan' = [scan EXCEPT !.futures[i].st = "running",
                            !.probed = @ \cup {<<scan.ri, scan.all_ips[i]>>}]
    /\ UNCHANGED <<scanFrame, devices>>

\* check_mikrotik_device returns or raises; the future is done
ProbeFinish(i) ==
    /\ scan.pc = "pool"
    /\ scan.futures[i].st = "running"
    /\ \E outcome \in Outcomes :
         scan' = [scan EXCEPT
             !.futures[i] = [st |-> "done", outcome |-> outcome,
                             value |-> CheckMikrotikDevice(scan.all_ips[i],
                                                           scan.ri, outcome)]]
    /\ UNCHANGED <<scanFrame, devices>>

CollectPropagating(i) ==
    /\ scan.pc = "pool"
    /\ scan.futures[i].st = "done"
    /\ LET future == scan.futures[i].value
       IN  IF future.raised
           THEN scan' = [scan EXCEPT
                    !.futures[i].st = "collected",
                    !.pc = IF scan.call = "scan_network" THEN "raised" ELSE "range",
                    !.ri = IF scan.call = "scan_network" THEN @ ELSE @ + 1,
                    !.per_range = IF scan.call = "scan_network" THEN @
                                  ELSE Append(@, [failed |-> TRUE,
                                                  devices |-> <<>>])]
           ELSE scan' = [scan EXCEPT
                    !.futures[i].st = "collected",
                    !.found_devices = @ \o future.device_info]
    /\ UNCHANGED <<scanFrame, devices>>

\* lines 49-57: as_completed yields a done future; its result is appended
\* when it is a device, its exception is caught and logged
Collect(i) ==
    /\ scan.pc = "pool"
    /\ scan.futures[i].st = "done"
    /\ LET future == scan.futures[i].value
       IN  scan' = [scan EXCEPT
               !.futures[i].st = "collected",
               !.found_devices = IF future.raised THEN @
                                 ELSE @ \o future.device_info]
    /\ UNCHANGED <<scanFrame, devices>>

\* line 60: every future has been yielded; scan_network returns and
\* run_discovery extends all_devices (line 185)
ScanReturn ==
    /\ scan.pc = "pool"
    /\ \A i \in DOMAIN scan.futures : scan.futures[i].st = "collected"
    /\ IF scan.call = "scan_network"
       THEN scan' = [scan EXCEPT !.pc = "returned",
                                 !.result = <<scan.found_devices>>]
       ELSE scan' = [scan EXCEPT
               !.pc = "range",
               !.ri = @ + 1,
               !.all_devices = @ \o scan.found_devices,
               !.per_range = Append(@, [failed |-> FALSE,
                                        devices |-> scan.found_devices])]
    /\ UNCHANGED <<scanFrame, devices>>

IsExistingByName(existing_devices, device_info) ==
    \E i \in 1..Len(existing_devices) :
        existing_devices[i].name = device_info.name

\* add_discovered_devices lines 146-151: the comparison by host address
IsExisting(existing_devices, device_info) ==
    \E i \in 1..Len(existing_devices) :
        existing_devices[i].host = device_info.host

\* add_discovered_devices lines 140-142, called at run_discovery line 190
MergeBegin ==
    /\ scan.pc = "range"
    /\ scan.call = "run_discovery"
    /\ scan.ri > Len(scan.network_ranges)
    /\ scan' = [scan EXCEPT !.pc = "merge", !.existing_devices = devices,
                            !.mi = 1, !.new_count = 0, !.existing_count = 0]
    /\ UNCHANGED <<scanFrame, devices>>

\* add_discovered_devices lines 144-160: one candidate
MergeCandidate ==
    /\ scan.pc = "merge"
    /\ scan.mi <= Len(scan.all_devices)
    /\ LET device_info == scan.all_devices[scan.mi]
           tagged == [device_info EXCEPT !.site_id = scan.site_id]
       IN  IF IsExisting(scan.existing_devices, device_info)
           THEN /\ scan' = [scan EXCEPT !.mi = @ + 1, !.existing_count = @ + 1]
                /\ devices' = devices
           ELSE /\ scan' = [scan EXCEPT !.mi = @ + 1, !.new_count = @ + 1,
                                        !.all_devices[scan.mi] = tagged]
                /\ devices' = ConfigAddDevice(devices, tagged)
    /\ UNCHANGED scanFrame

\* run_discovery lines 193-200: the summary
RunReturn ==
    /\ scan.pc = "merge"
    /\ scan.mi > Len(scan.all_devices)
    /\ scan' = [scan EXCEPT
            !.pc = "returned",
            !.result = <<[total_found |-> Len(scan.all_devices),
                          new_devices |-> scan.new_count,
                          existing_devices |-> scan.existing_count,
                          devices |-> scan.all_devices]>>]
    /\ UNCHANGED <<scanFrame, devices>>

InitScan ==
    /\ clock = StartTime
    /\ ticks = 0
    /\ InitVendorPart
    /\ discovered_devices = EmptyMap
    /\ dict_order = <<>>
    /\ pass = IdlePass
    /\ evicted = {}
    /\ devices \in {<<>>, ConfigAddDevice(<<>>, ManualDevice)}
    /\ last_call = [op |-> "none"]
    /\ InitLifePart
    /\ InitNormPart
    /\ InitCallerPart
    /\ InitStoragePart
    /\ InitPromotePart
    /\ scan \in {CallScanNetwork(r, w) : r \in NetworkRanges, w \in PoolSizes}
              \cup {CallRunDiscovery(rs, site) : rs \in RangeLists,
                                                site \in ScanSites}

NextScan ==
    \/ ScanBegin
    \/ \E i \in DOMAIN scan.futures : ProbeStart(i)
    \/ \E i \in DOMAIN scan.futures : ProbeFinish(i)
    \/ \E i \in DOMAIN scan.futures : Collect(i)
    \/ ScanReturn
    \/ MergeBegin
    \/ MergeCandidate
    \/ RunReturn

SpecScan == InitScan /\ [][NextScan]_vars

\* the pool threads and the calling thread keep running, and every probe
\* ends: each socket call of check_mikrotik_device has a timeout
SpecScanFair == SpecScan /\ WF_vars(NextScan)

(***************************************************************************)
(* Claims about the active scanner.                                        *)
(***************************************************************************)

\* the hosts of the candidates in a list
HostsIn(found) == {found[k].host : k \in 1..Len(found)}

\* the hosts of the range being scanned whose probe met the given outcome
HostsWith(outcome) ==
    {scan.all_ips[i] : i \in {j \in DOMAIN scan.futures :
                                  scan.futures[j].outcome = outcome}}

\* C25: whatever the pool size and the order in which the probes complete,
\* the list scan_network() returns for a range holds exactly one candidate
\* for each host that accepted the port probe and the login, and none for
\* any other host.
C25_ScanReturnsAccepting ==
    [][(scan.pc = "pool" /\ scan'.pc # "pool")
          => LET returned == IF scan.call = "scan_network"
                             THEN scan'.result[1]
                             ELSE scan'.per_range[Len(scan'.per_range)].devices
             IN  /\ scan'.pc \in {"returned", "range"}
                 /\ HostsIn(returned) = HostsWith("device")
                 /\ Len(returned) = Cardinality(HostsWith("device"))]_vars

\* a scan with 50 pool threads returned both hosts of the range, in the
\* reverse of the order in which they were submitted
C25_Witness ==
    /\ scan.pc = "returned"
    /\ scan.call = "scan_network"
    /\ scan.max_workers = 50
    /\ scan.result = <<<<DeviceInfo("10.0.0.2", 1), DeviceInfo("10.0.0.1", 1)>>>>

\* C26: when the probe of one host raises, the scan of the range still ends,
\* and it ends by returning, after every submitted probe has run and been
\* collected, the candidates of all the hosts whose probe met a device; only
\* the raising host is left out.
C26_RaisingProbeIsolated ==
    /\ [][(scan.pc = "pool" /\ scan'.pc # "pool" /\ HostsWith("raised") # {})
             => /\ \A i \in DOMAIN scan.futures :
                       scan.futures[i].st = "collected"
                /\ scan'.pc = IF scan.call = "scan_network"
                              THEN "returned" ELSE "range"
                /\ HostsIn(scan.found_devices) = HostsWith("device")
                /\ IF scan.call = "scan_network"
                   THEN scan'.result = <<scan.found_devices>>
                   ELSE scan'.all_devices
                            = scan.all_devices \o scan.found_devices]_vars
    /\ \A r \in 1..MaxRanges :
          (scan.pc = "pool" /\ scan.ri = r /\ HostsWith("raised") # {})
              ~> ~(scan.pc = "pool" /\ scan.ri = r)

\* the probe of the first host raised, the probe of the second met a device,
\* and the scan returned the second host's candidate
C26_Witness ==
    /\ scan.pc = "returned"
    /\ scan.call = "scan_network"
    /\ scan.futures[1].outcome = "raised"
    /\ scan.futures[2].outcome = "device"
    /\ scan.result = <<<<DeviceInfo("10.0.0.2", 1)>>>>

\* the lists of a sequence of per-range results, concatenated in order
RECURSIVE ConcatDevices(_)
ConcatDevices(results) ==
    IF results = <<>> THEN <<>>
    ELSE Head(results).devices \o ConcatDevices(Tail(results))

\* C27: run_discovery() scans its ranges one after the other, never raises
\* because the scan of a range failed, and when it goes on to the merge every
\* range has been processed: each range that did not fail has had all its
\* hosts probed, and all_devices is the concatenation, in the order of the
\* ranges, of the lists the scans that did not fail returned.
C27_FailedRangeAbsorbed ==
    /\ [](scan.call = "run_discovery"
            => /\ scan.pc # "raised"
               /\ scan.pc \in {"range", "pool"}
                     => Len(scan.per_range) = scan.ri - 1)
    /\ [][(scan.pc = "range" /\ scan'.pc = "merge")
             => /\ Len(scan.per_range) = Len(scan.network_ranges)
                /\ \A r \in 1..Len(scan.network_ranges) :
                      IF scan.network_ranges[r] \in {RangeA, RangeB}
                      THEN /\ ~scan.per_range[r].failed
                           /\ \A k \in DOMAIN Hosts(scan.network_ranges[r]) :
                                 <<r, Hosts(scan.network_ranges[r])[k]>>
                                     \in scan.probed
                      ELSE scan.per_range[r].failed
                /\ scan.all_devices = ConcatDevices(scan.per_range)]_vars

\* the first range failed to parse, the second was scanned and its device is
\* in the result
C27_Witness ==
    /\ scan.pc = "returned"
    /\ scan.call = "run_discovery"
    /\ scan.network_ranges = <<Malformed, RangeA>>
    /\ scan.per_range[1].failed
    /\ scan.result[1].total_found = 2

\* C28: a call whose input holds a malformed range fails before any probing:
\* no host of any of its ranges is ever probed, it never returns a result,
\* and the monitored set gains no device.
C28_MalformedFailsWholeCall ==
    (\E r \in 1..Len(scan.network_ranges) :
         scan.network_ranges[r] \notin {RangeA, RangeB})
        => /\ scan.probed = {}
           /\ scan.pc # "returned"
           /\ scan.pc = "merge" => devices = scan.existing_devices

\* C29: each merge step classifies the next candidate, once, by its host
\* address against the monitored set the merge started from: on a match the
\* existing count grows by one and the store is left alone; otherwise the
\* candidate is tagged with the site identifier, appended to the store and
\* the new count grows by one.  The summary returned lists every candidate
\* the scans found and its counts satisfy new + existing = total found.
C29_MergeClassifiesByHost ==
    /\ [][(scan.pc = "merge" /\ scan'.mi # scan.mi)
             => LET c == scan.all_devices[scan.mi]
                    known == {scan.existing_devices[i].host :
                                  i \in 1..Len(scan.existing_devices)}
                IN  /\ scan'.mi = scan.mi + 1
                    /\ IF c.host \in known
                       THEN /\ devices' = devices
                            /\ scan'.existing_count = scan.existing_count + 1
                            /\ scan'.new_count = scan.new_count
                            /\ scan'.all_devices = scan.all_devices
                       ELSE /\ Len(devices') = Len(devices) + 1
                            /\ devices'[Len(devices')].host = c.host
                            /\ devices'[Len(devices')].site_id = scan.site_id
                            /\ SubSeq(devices', 1, Len(devices)) = devices
                            /\ scan'.new_count = scan.new_count + 1
                            /\ scan'.existing_count = scan.existing_count
                            /\ scan'.all_devices[scan.mi].site_id = scan.site_id]_vars
    /\ []((scan.pc = "returned" /\ scan.call = "run_discovery")
            => LET result == scan.result[1]
               IN  /\ result.new_devices + result.existing_devices
                         = result.total_found
                   /\ result.total_found = Len(result.devices)
                   /\ Len(result.devices) = Len(ConcatDevices(scan.per_range))
                   /\ \A k \in 1..Len(result.devices) :
                         result.devices[k].id = ConcatDevices(scan.per_range)[k].id
                   /\ Len(devices)
                         = Len(scan.existing_devices) + result.new_devices)

\* a run over two ranges found one device the monitored set already held
\* and one it did not: the first was counted, the second tagged and added
C29_Witness ==
    /\ scan.pc = "returned"
    /\ scan.call = "run_discovery"
    /\ Len(scan.existing_devices) = 1
    /\ scan.result[1].existing_devices = 1
    /\ scan.result[1].new_devices = 1
    /\ Len(devices) = 2
    /\ devices[2].host = "10.0.1.1"
    /\ devices[2].site_id = "site2"

(***************************************************************************)
(* get_discovered_devices() and add_to_monitored_devices() called from     *)
(* another thread while the passive pass runs: one step per access of the  *)
(* call to the inventory.  No lock is taken by either side.                *)
(***************************************************************************)
callerFrame == <<clock, ticks, vendorVars, lifeVars, normVars, scanVars,
                 storageVars, promoteVars,
                 discovered_devices, dict_order, pass, evicted, last_call>>

\* line 183: if mac_address not in discovered_devices: return None
PromoteMembership ==
    /\ caller.pc = "idle"
    /\ \E mac_address \in PromoteMacs :
         IF mac_address \notin DOMAIN discovered_devices
         THEN caller' = [caller EXCEPT !.pc = "returned", !.op = "promote",
                                      !.mac_address = mac_address,
                                      !.ret = <<None>>]
         ELSE caller' = [caller EXCEPT !.pc = "read", !.op = "promote",
                                      !.mac_address = mac_address]
    /\ UNCHANGED <<callerFrame, devices>>

\* line 186: device_info = discovered_devices[mac_address], a KeyError when
\* the key is gone; then lines 188-230 on the record that was read
PromoteRead ==
    /\ caller.pc = "read"
    /\ LET mac_address == caller.mac_address
       IN  IF mac_address \notin DOMAIN discovered_devices
           THEN /\ caller' = [caller EXCEPT !.pc = "raised",
                                            !.raised = "KeyError"]
                /\ devices' = devices
           ELSE IF ExistingMatches(devices, mac_address) # {}
           THEN /\ caller' = [caller EXCEPT
                        !.pc = "returned",
                        !.ret = <<FirstId(devices,
                                          ExistingMatches(devices, mac_address))>>]
                /\ devices' = devices
           ELSE \E site_id \in Sites :
                  /\ devices' = ConfigAddDevice(devices,
                                    NewDevice(mac_address, site_id,
                                              discovered_devices[mac_address]))
                  /\ caller' = [caller EXCEPT
                        !.pc = "returned",
                        !.ret = <<FirstId(devices',
                                          ExactMatches(devices', mac_address))>>]
    /\ UNCHANGED callerFrame

\* line 244: the for statement creates the iterator over
\* discovered_devices.items(), which remembers the size of the dict
ListIterBegin ==
    /\ caller.pc = "idle"
    /\ \E only_new \in BOOLEAN :
         caller' = [caller EXCEPT !.pc = "iter", !.op = "list",
                                  !.only_new = only_new,
                                  !.used = Cardinality(DOMAIN discovered_devices)]
    /\ UNCHANGED <<callerFrame, devices>>

\* list.sort(key=first_seen, reverse=True) on the collected records, each a
\* reference to a record (its key) with the first_seen the record carries
RECURSIVE InsertByFirstSeen(_, _)
InsertByFirstSeen(sorted, device) ==
    IF sorted = <<>> THEN <<device>>
    ELSE IF Head(sorted).first_seen >= device.first_seen
         THEN <<Head(sorted)>> \o InsertByFirstSeen(Tail(sorted), device)
         ELSE <<device>> \o sorted

RECURSIVE SortByFirstSeen(_)
SortByFirstSeen(result) ==
    IF result = <<>> THEN <<>>
    ELSE InsertByFirstSeen(SortByFirstSeen(SubSeq(result, 1, Len(result) - 1)),
                           result[Len(result)])

\* lines 244-251: one step of the iterator, a RuntimeError when the dict has
\* changed size since the iterator was made; lines 245-247 on the record it
\* yields; the sort and the return once it is exhausted
ListIterNext ==
    /\ caller.pc = "iter"
    /\ IF Cardinality(DOMAIN discovered_devices) # caller.used
       THEN caller' = [caller EXCEPT !.pc = "raised", !.raised = "RuntimeError"]
       ELSE IF caller.pos < Len(dict_order)
       THEN LET mac == dict_order[caller.pos + 1]
                device == discovered_devices[mac]
            IN  caller' = [caller EXCEPT
                    !.pos = @ + 1,
                    !.result = IF caller.only_new /\ ~device.is_new THEN @
                               ELSE Append(@, [mac |-> mac,
                                               first_seen |-> device.first_seen])]
       ELSE caller' = [caller EXCEPT !.pc = "returned",
                                     !.ret = <<SortByFirstSeen(caller.result)>>]
    /\ UNCHANGED <<callerFrame, devices>>

\* the call has returned or raised: the observation ends with it
CallOver == caller.pc \in {"returned", "raised"}

NextRace ==
    \/ ~CallOver /\ TickPassive
    \/ ~CallOver /\ PassBegin
    \/ ~CallOver /\ ProcessArp
    \/ ~CallOver /\ ArpDone
    \/ ~CallOver /\ ProcessDhcp
    \/ ~CallOver /\ DhcpDone
    \/ ~CallOver /\ Evict
    \/ ~CallOver /\ PassReturn
    \/ PromoteMembership
    \/ PromoteRead
    \/ ListIterBegin
    \/ ListIterNext

SpecRace == InitPassive /\ [][NextRace]_vars

\* C21: a promote() or list() call that runs beside the passive pass ends by
\* returning a result and never by raising (no insert or delete of the pass
\* falls between the call's accesses to the inventory).
C21_CallsNeverRaise == caller.pc # "raised"

(***************************************************************************)
(* CACHE_FILE on disk: __init__ with _load_cache, and _save_cache one      *)
(* step per system call.  file is the map whose JSON text is being held,   *)
(* file_bytes says how much of that text is there.                         *)
(***************************************************************************)
OuiKey == "AABBCC"

\* the maps CACHE_FILE may hold when the component is built: none, a fresh
\* entry, an expired entry, and an entry in the old format (a bare vendor
\* string, written here as a one-element tuple)
StoredMaps ==
    {EmptyMap} \cup
    {[k \in {OuiKey} |-> v] :
        v \in {<<"Acme", StartTime - 10>>, <<"Acme", StartTime - CACHE_EXPIRY>>,
               <<"Acme">>}}

\* open(), write() and close() either succeed or raise IOError
IoOutcomes == {"ok", "IOError"}

\* lines 29-31 and 41: os.path.exists() is false, open() or read() raises
\* IOError, or json.load() raises JSONDecodeError on a text that is not
\* one whole JSON value
LoadFails(bytes, io) == bytes # "missing" /\ (io = "IOError" \/ bytes # "complete")

\* _load_cache (lines 27-44); now is time.time() of line 37
LoadCache(bytes, data, io, now) ==
    IF bytes = "missing" \/ LoadFails(bytes, io)
    THEN EmptyMap
    ELSE [mac \in DOMAIN data |->
            IF Len(data[mac]) = 1 THEN <<data[mac][1], now>> ELSE data[mac]]

storageFrame == <<clock, ticks, rounds, nlookups, passiveVars, lifeVars,
                  normVars, scanVars, callerVars, promoteVars>>

\* __init__ (lines 22-25)
Construct ==
    /\ thr["t1"].pc = "unbuilt"
    /\ \E io \in IoOutcomes :
         /\ cache' = LoadCache(file_bytes, file, io, clock)
         /\ logged' = IF LoadFails(file_bytes, io)
                      THEN logged \cup {"load"} ELSE logged
    /\ last_request_time' = 0
    /\ thr' = [thr EXCEPT !["t1"] = IdleThread]
    /\ UNCHANGED <<storageFrame, file, file_bytes, observed>>

SaveOpenPropagating(t) ==
    /\ thr[t].pc = "save"
    /\ \E io \in IoOutcomes :
         IF io = "IOError"
         THEN /\ thr' = [thr EXCEPT ![t].pc = "raised"]
              /\ UNCHANGED <<file, file_bytes, logged>>
         ELSE /\ file' = EmptyMap
              /\ file_bytes' = "empty"
              /\ thr' = [thr EXCEPT ![t].pc = "dump"]
              /\ UNCHANGED logged
    /\ UNCHANGED <<storageFrame, cache, last_request_time, observed>>

\* line 49: open(CACHE_FILE, 'w') truncates the file, or raises IOError,
\* which line 51 catches and logs; lookup() then returns vendor (line 95)
SaveOpen(t) ==
    /\ thr[t].pc = "save"
    /\ \E io \in IoOutcomes :
         IF io = "IOError"
         THEN /\ logged' = logged \cup {"save"}
              /\ thr' = [thr EXCEPT ![t].pc = "done", ![t].ret = thr[t].vendor]
              /\ UNCHANGED <<file, file_bytes>>
         ELSE /\ file' = EmptyMap
              /\ file_bytes' = "empty"
              /\ thr' = [thr EXCEPT ![t].pc = "dump"]
              /\ UNCHANGED logged
    /\ UNCHANGED <<storageFrame, cache, last_request_time, observed>>

\* line 50: json.dump(self.cache, f) writes the text piece by piece
SaveWrite(t) ==
    /\ thr[t].pc = "dump"
    /\ \E io \in IoOutcomes :
         IF io = "IOError"
         THEN /\ logged' = logged \cup {"save"}
              /\ thr' = [thr EXCEPT ![t].pc = "done", ![t].ret = thr[t].vendor]
              /\ UNCHANGED <<file, file_bytes>>
         ELSE /\ file' = cache
              /\ file_bytes' = "partial"
              /\ thr' = [thr EXCEPT ![t].pc = "close"]
              /\ UNCHANGED logged
    /\ UNCHANGED <<storageFrame, cache, last_request_time, observed>>

\* the end of the with block: the rest of the text is flushed and the file
\* closed
SaveClose(t) ==
    /\ thr[t].pc = "close"
    /\ \E io \in IoOutcomes :
         IF io = "IOError"
         THEN /\ logged' = logged \cup {"save"}
              /\ UNCHANGED file_bytes
         ELSE /\ file_bytes' = "complete"
              /\ UNCHANGED logged
    /\ thr' = [thr EXCEPT ![t].pc = "done", ![t].ret = thr[t].vendor]
    /\ UNCHANGED <<storageFrame, cache, file, last_request_time, observed>>

\* another reader (a second process building its own MacVendorLookup) opens
\* and reads CACHE_FILE, once; saving tells that the writer stands between
\* open() and the end of the with block at that moment
ReadFile ==
    /\ observed = <<>>
    /\ observed' = <<[bytes |-> file_bytes, data |-> file,
                      saving |-> thr["t1"].pc \in {"dump", "close"}]>>
    /\ UNCHANGED <<storageFrame, cache, file, last_request_time, thr,
                   file_bytes, logged>>

\* the component has not been built; CACHE_FILE is absent, whole, or was
\* left empty or cut short by an earlier run
InitStorage ==
    /\ clock = StartTime
    /\ ticks = 0
    /\ cache = EmptyMap
    /\ last_request_time = 0
    /\ thr = [t \in Threads |->
                IF t = "t1" THEN [IdleThread EXCEPT !.pc = "unbuilt"]
                ELSE IdleThread]
    /\ rounds = <<>>
    /\ nlookups = 0
    /\ \E bytes \in {"missing", "empty", "partial", "complete"},
          data \in StoredMaps :
         /\ bytes \in {"missing", "empty"} => data = EmptyMap
         /\ bytes = "partial" => data # EmptyMap
         /\ file_bytes = bytes
         /\ file = data
    /\ observed = <<>>
    /\ logged = {}
    /\ InitPassivePart
    /\ InitLifePart
    /\ InitNormPart
    /\ InitScanPart
    /\ InitCallerPart
    /\ InitPromotePart

NextStorage ==
    \/ TickVendor
    \/ Construct
    \/ LookupBegin("t1")
    \/ LookupCheckCache("t1")
    \/ LookupRateCheck("t1")
    \/ LookupWake("t1")
    \/ LookupCallOnline("t1")
    \/ LookupStamp("t1")
    \/ LookupStore("t1")
    \/ SaveOpen("t1")
    \/ SaveWrite("t1")
    \/ SaveClose("t1")
    \/ LookupReturn("t1")
    \/ ReadFile

SpecStorage == InitStorage /\ [][NextStorage]_vars

(***************************************************************************)
(* Claims about CACHE_FILE.                                                *)
(***************************************************************************)

\* C31: storage failures are not fatal to lookups.  When building the
\* component the read of the cache file fails (IOError, or a text that is
\* not one whole JSON value), the in-memory cache starts empty; when a step
\* of the save fails during a lookup, the lookup is about to return the
\* vendor the provider gave and the cache holds the new entry; no lookup
\* ever ends by raising.
C31_StorageFailuresNonFatal ==
    [][/\ (/\ thr["t1"].pc = "unbuilt"
           /\ thr'["t1"].pc # "unbuilt"
           /\ (file_bytes \in {"empty", "partial"} \/ "load" \in logged'))
          => cache' = EmptyMap
       /\ thr'["t1"].pc # "raised"
       /\ (/\ thr["t1"].pc \in {"save", "dump", "close"}
           /\ (logged' # logged \/ file_bytes' # "complete"))
          => /\ thr["t1"].called
             /\ Truthy(thr["t1"].vendor)
             /\ thr'["t1"].pc = "done" => thr'["t1"].ret = thr["t1"].vendor
             /\ thr["t1"].normalized_mac \in DOMAIN cache'
             /\ cache'[thr["t1"].normalized_mac]
                    = <<thr["t1"].vendor, thr["t1"].current_time>>
       /\ (thr["t1"].pc \in {"save", "dump", "close"} /\ logged' # logged)
          => thr'["t1"].pc = "done"]_vars

\* a lookup is about to return "Acme" although both the load and the save
\* failed, and the cache holds the entry
C31_Witness ==
    /\ {"load", "save"} \subseteq logged
    /\ thr["t1"].pc = "done"
    /\ thr["t1"].ret = "Acme"
    /\ file_bytes # "complete"
    /\ OuiKey \in DOMAIN cache

\* C32: the cache file is replaced atomically: a reader that reads it while
\* a save is under way sees the whole text of a map (the previous one or
\* the new one), never an empty or a cut-short file.
C32_AtomicReplace ==
    (observed # <<>> /\ observed[1].saving)
        => observed[1].bytes = "complete"

(***************************************************************************)
(* add_to_monitored_devices() run by two callers at once, one step per     *)
(* access to the inventory or to the device store.                         *)
(***************************************************************************)
promoteFrame == <<clock, ticks, vendorVars, lifeVars, normVars, scanVars,
                  callerVars, storageVars, discovered_devices, dict_order,
                  pass, evicted, last_call>>

\* lines 183-186: the membership test and the read of the inventory record
PromoteCall(p) ==
    /\ promoters[p].pc = "idle"
    /\ \E mac_address \in PromoteMacs :
         IF mac_address \notin DOMAIN discovered_devices
         THEN promoters' = [promoters EXCEPT
                  ![p] = [IdlePromoter EXCEPT !.pc = "returned",
                                              !.mac_address = mac_address,
                                              !.ret = <<None>>]]
         ELSE promoters' = [promoters EXCEPT
                  ![p] = [IdlePromoter EXCEPT
                             !.pc = "check",
                             !.mac_address = mac_address,
                             !.device_info = <<discovered_devices[mac_address]>>]]
    /\ UNCHANGED <<promoteFrame, devices>>

\* lines 189-192: existing_devices = config.get_devices() and the loop over
\* it; return the id of the first match
PromoteCheck(p) ==
    /\ promoters[p].pc = "check"
    /\ LET hits == ExistingMatches(devices, promoters[p].mac_address)
       IN  promoters' = [promoters EXCEPT
               ![p] = IF hits # {}
                      THEN [@ EXCEPT !.pc = "returned",
                                     !.ret = <<FirstId(devices, hits)>>]
                      ELSE [@ EXCEPT !.pc = "add"]]
    /\ UNCHANGED <<promoteFrame, devices>>

\* lines 195-223: new_device is built and config.add_device(new_device) called
PromoteAdd(p) ==
    /\ promoters[p].pc = "add"
    /\ \E site_id \in Sites :
         devices' = ConfigAddDevice(devices,
                        NewDevice(promoters[p].mac_address, site_id,
                                  promoters[p].device_info[1]))
    /\ promoters' = [promoters EXCEPT ![p].pc = "reread", ![p].added = TRUE]
    /\ UNCHANGED promoteFrame

\* lines 226-230: config.get_devices() again; the id of the first device
\* whose MAC equals mac_address, or None
PromoteReread(p) ==
    /\ promoters[p].pc = "reread"
    /\ promoters' = [promoters EXCEPT
           ![p].pc = "returned",
           ![p].ret = <<FirstId(devices,
                                ExactMatches(devices, promoters[p].mac_address))>>]
    /\ UNCHANGED <<promoteFrame, devices>>

\* the inventory as earlier passes left it: the records of the listed keys,
\* created from ARP entries at StartTime
InventoryOf(keys) ==
    [mac \in Range(keys) |->
        ExtractDeviceInfo([mac_address |-> mac, address |-> "10.0.0.1",
                           vendor |-> "", device_type |-> "",
                           device_id |-> "r1"],
                          "arp", "r1", StartTime, "Acme")]

InitPromote ==
    /\ clock = StartTime
    /\ ticks = 0
    /\ InitVendorPart
    /\ dict_order \in {<<>>, <<MacUpper>>, <<MacUpper, MacPlain>>}
    /\ discovered_devices = InventoryOf(dict_order)
    /\ pass = IdlePass
    /\ evicted = {}
    /\ devices \in {<<>>, ConfigAddDevice(<<>>, ManualDevice)}
    /\ last_call = [op |-> "none"]
    /\ InitLifePart
    /\ InitOtherPart

NextPromote ==
    \/ \E p \in Promoters : PromoteCall(p)
    \/ \E p \in Promoters : PromoteCheck(p)
    \/ \E p \in Promoters : PromoteAdd(p)
    \/ \E p \in Promoters : PromoteReread(p)

SpecPromote == InitPromote /\ [][NextPromote]_vars

\* C33: when two concurrent promote calls for the same MAC of the inventory
\* have both returned, the store has gained at most one record for that MAC
\* and both calls have returned the same identifier.
C33_ConcurrentPromoteOneRecord ==
    (/\ promoters["p1"].pc = "returned"
     /\ promoters["p2"].pc = "returned"
     /\ promoters["p1"].mac_address = promoters["p2"].mac_address
     /\ promoters["p1"].mac_address \in DOMAIN discovered_devices)
        => /\ ~(promoters["p1"].added /\ promoters["p2"].added)
           /\ promoters["p1"].ret = promoters["p2"].ret

(***************************************************************************)
(* Further claims about the passive discovery store.                       *)
(***************************************************************************)

\* C34: every inventory record has first_seen <= last_seen, also when its
\* MAC occurs more than once in one pass and the record was created at a
\* clock reading later than the start of the pass.
C34_FirstSeenNotAfterLastSeen ==
    \A mac \in DOMAIN discovered_devices :
        discovered_devices[mac].first_seen <= discovered_devices[mac].last_seen

\* C37: at the end of a pass run at time now, every inventory record with
\* is_new = TRUE has now - first_seen < NEW_DEVICE_THRESHOLD, whether the
\* pass reported its MAC or not.
C37_NewFlagBoundedByAge ==
    pass.pc = "return" =>
        \A mac \in DOMAIN discovered_devices :
            discovered_devices[mac].is_new
                => pass.now - discovered_devices[mac].first_seen
                       < NEW_DEVICE_THRESHOLD

(***************************************************************************)
(* start_discovery() called after stop_discovery(), with no further        *)
(* stop_discovery(): the first start_discovery() has created               *)
(* worker 1, stop_discovery() has cleared the flag, and worker 1 stands    *)
(* wherever the stop found it, or has exited already.                      *)
(***************************************************************************)
InitRestart ==
    /\ clock = StartTime
    /\ ticks = 0
    /\ InitVendorPart
    /\ InitPassivePart
    /\ running = FALSE
    /\ discovery_thread = 1
    /\ \E pc \in AlivePcs \cup {"exited"} :
         workers = [w \in WorkerIds |->
                      IF w = 1
                      THEN [pc |-> pc,
                            sleep_for |-> IF pc = "sleep" THEN SCAN_INTERVAL ELSE 0,
                            raised |-> FALSE]
                      ELSE UnbornWorker]
    /\ starters = [c \in Starters |-> IdleStarter]
    /\ nstarts = 1
    /\ InitOtherPart

NextRestart ==
    \/ \E c \in Starters : StartCheck(c)
    \/ \E c \in Starters : StartFlag(c)
    \/ \E c \in Starters : StartCreate(c)
    \/ \E c \in Starters : StartThread(c)
    \/ \E w \in WorkerIds : WorkerTop(w)
    \/ \E w \in WorkerIds : CycleReturn(w)
    \/ \E w \in WorkerIds : CycleRaise(w)
    \/ \E w \in WorkerIds : WorkerWake(w)

SpecRestart == InitRestart /\ [][NextRestart]_vars

\* a started thread is scheduled again and again until it exits
SpecRestartFair ==
    /\ InitRestart
    /\ [][NextRestart]_vars
    /\ \A w \in WorkerIds : WF_vars(WorkerStep(w))

\* C35: once a start_discovery() call made after stop_discovery() has
\* returned, the passive loop keeps executing cycles (there is no further
\* stop_discovery() here), also when the call was made while the previous
\* worker was still alive.
C35_RestartKeepsCycling ==
    [](((nstarts >= 2) /\ (\A c \in Starters : starters[c].pc = "idle"))
          => []<>(\E w \in WorkerIds : workers[w].pc = "cycle"))

(***************************************************************************)
(* A further claim about the merge of the active scanner.                  *)
(***************************************************************************)

\* C36: after the merge step of run_discovery the records the step added to
\* the monitored set have pairwise different host addresses, also when the
\* candidate list holds one host more than once.
C36_MergeAddsHostOnce ==
    (scan.call = "run_discovery" /\ scan.pc = "returned")
        => \A i, j \in (Len(scan.existing_devices) + 1)..Len(devices) :
               i # j => devices[i].host # devices[j].host
====
